---- MODULE Spec2Model ----
(***************************************************************************)
(* Model of jax/core.py: the trace stack (MasterTrace, TraceStack,         *)
(* TraceState, new_master, new_sublevel), the lifting protocol             *)
(* (Trace.full_raise, find_top_trace) and primitive dispatch               *)
(* (Primitive.bind).                                                       *)
(*                                                                         *)
(* Python objects compared with `is` carry an id field; record equality    *)
(* on such records is object identity.  Methods that core.py leaves to     *)
(* the interpreter subclasses (pure, lift, sublift, process_primitive,     *)
(* Tracer.full_lower) and to the kernel provider (impl) are recorded as    *)
(* calls in the log of the operation that made them.                       *)
(***************************************************************************)
EXTENDS Integers, Sequences, FiniteSets, TLC

VARIABLES check_leaks, skip_checks, trace_state, scopes, live_tracers, last

vars == <<check_leaks, skip_checks, trace_state, scopes, live_tracers, last>>

\* ---------------------------------------------------------------- bounds
MaxScopes == 2
MaxTracers == 2
MaxArgs == 3
MaxOuts == 2
MaxRounds == 2
MaxEqns == 2
MaxObjects == 2
MaxAvals == 2
MaxLoop == 2

\* ------------------------------------------------------- the environment
\* Threads of control of the host program.
Threads == {"main", "worker"}

\* Interpreter classes supplied by the transformations (subclasses of Trace).
TraceTypes == {"JVPTrace"}

\* ------------------------------------------------------------- utilities
Range(s) == {s[i] : i \in 1..Len(s)}

Front(s) == SubSeq(s, 1, Len(s) - 1)

Last(s) == s[Len(s)]

\* The smallest positive number not in S: the identity of a newly
\* allocated object differs from that of every live object.
FreshId(S) == CHOOSE n \in 1..(Cardinality(S) + 1) : n \notin S
    /\ \A k \in 1..(n - 1) : k \in S

\* ------------------------------------------------------------ data model
\* class MasterTrace
MasterTrace(id, level, trace_type) ==
    [id |-> id, level |-> level, trace_type |-> trace_type]

\* MasterTrace.__eq__
MasterTraceEq(m1, m2) == m1.level = m2.level /\ m1.trace_type = m2.trace_type

\* MasterTrace.__hash__: hash((self.level, self.trace_type)), standing for
\* the tuple it is computed from
MasterTraceHash(m) == <<m.level, m.trace_type>>

\* class Sublevel(int): an int value with an object identity
Sublevel(val, id) == [val |-> val, id |-> id]

\* Trace.__init__, called on the class ttype
Trace(ttype, master, sublevel) ==
    [ttype |-> ttype, master |-> master, level |-> master.level,
     sublevel |-> sublevel]

\* Tracer.__init__; `via` names the interpreter method that built it
Tracer(trace, via) == [kind |-> "tracer", trace |-> trace, via |-> via]

isTracer(x) == x.kind = "tracer"

\* class TraceStack
TraceStack == [upward |-> <<>>, downward |-> <<>>]

\* Faulty variant: the levels at the bottom start at 0 as those at the top.
next_level_mirrored(stack, bottom) ==
    IF bottom THEN -Len(stack.downward) ELSE Len(stack.upward)

\* TraceStack.next_level
next_level(stack, bottom) ==
    IF bottom THEN -(Len(stack.downward) + 1) ELSE Len(stack.upward)

\* TraceStack.push
push(stack, val, bottom) ==
    IF bottom THEN [stack EXCEPT !.downward = Append(@, val)]
    ELSE [stack EXCEPT !.upward = Append(@, val)]

\* Faulty variant: pop ignores `bottom`.
pop_upward(stack, bottom) == [stack EXCEPT !.upward = Front(@)]

\* TraceStack.pop
pop(stack, bottom) ==
    IF bottom THEN [stack EXCEPT !.downward = Front(@)]
    ELSE [stack EXCEPT !.upward = Front(@)]

\* TraceState.__init__
TraceState == [trace_stack |-> TraceStack, substack |-> <<Sublevel(0, 0)>>]

\* Faulty variant: the new sublevel repeats the current one.
next_sublevel_same(substack) == Len(substack) - 1

\* new_sublevel: Sublevel(len(trace_state.substack))
next_sublevel(substack) == Len(substack)

\* class TraceState(threading.local): the state a thread sees through the
\* module global trace_state
\* Faulty variant: trace_state is an ordinary global, shared by all threads.
SharedStateOf(t) == "main"

StateOf(t) == t

\* cur_sublevel
cur_sublevel(t) == Last(trace_state[StateOf(t)].substack)

\* ----------------------------------------------------------------- values
\* unit = Unit()
unit == [kind |-> "value", pytype |-> "Unit"]

\* a Python object of a type with no entry in pytype_aval_mappings
opaque == [kind |-> "value", pytype |-> "object"]

\* a Python int
IntVal(n) == [kind |-> "value", pytype |-> "int", val |-> n]

isInt(x) == x.kind = "value" /\ x.pytype = "int"

\* pytype_aval_mappings (its keys)
pytype_aval_mappings == {"Unit"}

\* concrete_aval: TRUE when it raises TypeError
concrete_aval_raises(x) == x.pytype \notin pytype_aval_mappings

\* valid_jaxtype
valid_jaxtype(x) == ~concrete_aval_raises(x)

None == [kind |-> "None"]

Return(v) == [kind |-> "return", val |-> v]

Raise(exc, msg) == [kind |-> "raise", exc |-> exc, msg |-> msg]

\* A call of a method that core.py leaves to its collaborators.
Call(fn, self, args) == [fn |-> fn, self |-> self, args |-> args]

\* class Primitive, with the class attribute multiple_results
Primitive(name, multiple_results) ==
    [name |-> name, multiple_results |-> multiple_results]

\* A primitive with a single result.
add_p == Primitive("add", FALSE)

\* -------------------------------------------------------- abstract values
\* An instance of a subclass of AbstractValue.
AbstractValue(cls, shape, val) ==
    [kind |-> "aval", cls |-> cls, shape |-> shape, val |-> val]

\* bot = Bot()
bot == AbstractValue("Bot", 0, 0)

\* abstract_unit = AbstractUnit()
abstract_unit == AbstractValue("AbstractUnit", 0, 0)

\* Abstract values of a provider: an array known by its shape, and of a
\* subclass of it, an array known by its shape and its value.
ShapedArray(shape) == AbstractValue("ShapedArray", shape, 0)

ConcreteArray(shape, val) == AbstractValue("ConcreteArray", shape, val)

\* isinstance(x, AbstractValue)
isAbstractValue(x) == x.kind = "aval"

\* isinstance(x, type(y)), x and y being abstract values
isinstance_of_type(x, y) ==
    \/ x.cls = y.cls
    \/ x.cls = "ConcreteArray" /\ y.cls = "ShapedArray"

\* self.join(other): Bot defines no join, AbstractUnit.join returns self,
\* the provider's classes return the least description that covers both
join(self, other) ==
    IF self.cls = "Bot" THEN Raise("AttributeError", "join")
    ELSE IF self.cls = "AbstractUnit" THEN Return(self)
    ELSE IF self.shape # other.shape THEN Raise("TypeError", "shapes")
    ELSE IF self = other THEN Return(self)
    ELSE Return(ShapedArray(self.shape))

\* lattice_join
lattice_join(x, y) ==
    IF x = None THEN Return(y)
    ELSE IF y = None THEN Return(x)
    ELSE IF isinstance_of_type(x, y) THEN join(y, x)
    ELSE IF isinstance_of_type(y, x) THEN join(x, y)
    ELSE Raise("TypeError", <<x, y>>)

\* ------------------------------------------------ the interpreter contract
\* Trace.pure of a subclass: wraps a concrete value for the interpreter
pure(self, val) == Tracer(self, "pure")

\* Trace.lift of a subclass: adopts a tracer of a lower level
lift(self, tracer) == Tracer(self, "lift")

\* Trace.sublift of a subclass: adopts a tracer of an older sublevel
sublift(self, tracer) == Tracer(self, "sublift")

\* Trace.process_primitive of a subclass
process_primitive(self, primitive, tracers) ==
    IF primitive.multiple_results
    THEN <<Tracer(self, "out"), Tracer(self, "out")>>
    ELSE Tracer(self, "out")

\* A tracer of a subclass that carries no information of its interpreter
\* for the value it wraps: full-lowering strips it.
LoweringTracer(trace, lowered) ==
    [kind |-> "tracer", trace |-> trace, via |-> "wrap", lowered |-> lowered]

RECURSIVE full_lower(_)

\* Faulty variant: a wrapper that carries no information gives up what it
\* wraps as it is, one layer only.
tracer_full_lower_one_layer(tracer) ==
    IF "lowered" \in DOMAIN tracer THEN tracer.lowered ELSE tracer

\* Tracer.full_lower of a subclass: a tracer that carries information of
\* its interpreter returns itself; one that carries none returns the value
\* it wraps fully lowered in turn, so that no wrapper without information
\* is left on what comes back.
tracer_full_lower(tracer) ==
    IF "lowered" \in DOMAIN tracer THEN full_lower(tracer.lowered) ELSE tracer

\* A primitive with two results.
swap_p == Primitive("swap", TRUE)

\* Primitive.impl registered by the kernel provider: add sums two numbers,
\* swap returns its two operands in reverse order
impl(primitive, args) ==
    IF primitive.multiple_results
    THEN IF primitive.name = "swap" /\ Len(args) = 2
         THEN <<args[2], args[1]>>
         ELSE <<unit, unit>>
    ELSE IF primitive.name = "add" /\ Len(args) = 2
            /\ isInt(args[1]) /\ isInt(args[2])
         THEN IntVal(args[1].val + args[2].val)
         ELSE unit

\* ---------------------------------------------------------------- lifting
\* full_lower
full_lower(val) == IF isTracer(val) THEN tracer_full_lower(val) ELSE val

\* The position of the element max(..., key=attrgetter('level')) returns:
\* the first tracer of the greatest level.
MaxLevelIndex(xs) ==
    CHOOSE i \in 1..Len(xs) :
        /\ isTracer(xs[i])
        /\ \A j \in 1..Len(xs) : isTracer(xs[j]) =>
              \/ xs[j].trace.level < xs[i].trace.level
              \/ xs[j].trace.level = xs[i].trace.level /\ i <= j

\* Faulty variant: the tracer of the lowest level wins.
find_top_trace_lowest(xs, sublevel) ==
    IF \A i \in 1..Len(xs) : ~isTracer(xs[i]) THEN None
    ELSE LET bottom_trace ==
                 xs[CHOOSE i \in 1..Len(xs) :
                       /\ isTracer(xs[i])
                       /\ \A j \in 1..Len(xs) : isTracer(xs[j]) =>
                             xs[i].trace.level <= xs[j].trace.level].trace
         IN Trace(bottom_trace.ttype, bottom_trace.master, sublevel)

\* Faulty variant: with no tracer operand, an interpreter of level 0 is used.
find_top_trace_default(xs, sublevel) ==
    IF \A i \in 1..Len(xs) : ~isTracer(xs[i])
    THEN Trace("JVPTrace", MasterTrace(1, 0, "JVPTrace"), sublevel)
    ELSE LET top_trace == xs[MaxLevelIndex(xs)].trace
         IN Trace(top_trace.ttype, top_trace.master, sublevel)

\* Faulty variant: the interpreter of the winning tracer is handed back as
\* it is, not a new one built at the current sublevel.
find_top_trace_keeps_trace(xs, sublevel) ==
    IF \A i \in 1..Len(xs) : ~isTracer(xs[i]) THEN None
    ELSE xs[MaxLevelIndex(xs)].trace

\* find_top_trace
find_top_trace(xs, sublevel) ==
    IF \A i \in 1..Len(xs) : ~isTracer(xs[i]) THEN None
    ELSE LET top_trace == xs[MaxLevelIndex(xs)].trace
         IN Trace(top_trace.ttype, top_trace.master, sublevel)

\* Faulty variant: a tracer of the target's own sublevel is sublifted too.
full_raise_sublift_equal(self, val) ==
    IF ~isTracer(val)
    THEN [calls |-> <<Call("pure", self, <<val>>)>>,
          result |-> Return(pure(self, val))]
    ELSE IF val.trace.master = self.master
    THEN IF FALSE
         THEN [calls |-> <<>>, result |-> Return(val)]
         ELSE IF val.trace.sublevel.val <= self.sublevel.val
         THEN [calls |-> <<Call("sublift", self, <<val>>)>>,
               result |-> Return(sublift(self, val))]
         ELSE [calls |-> <<>>,
               result |-> Raise("Exception", "Can't lift sublevels")]
    ELSE IF val.trace.level < self.level
    THEN IF val.trace.sublevel.val > self.sublevel.val
         THEN [calls |-> <<>>,
               result |-> Raise("Exception", "Incompatible sublevel")]
         ELSE [calls |-> <<Call("lift", self, <<val>>)>>,
               result |-> Return(lift(self, val))]
    ELSE IF val.trace.level > self.level
    THEN [calls |-> <<>>, result |-> Raise("Exception", "Can't lift")]
    ELSE [calls |-> <<>>,
          result |-> Raise("Exception", "Different traces at same level")]


\* Faulty variant: a tracer of a lower level is lifted whatever its sublevel.
full_raise_no_sublevel_check(self, val) ==
    IF ~isTracer(val)
    THEN [calls |-> <<Call("pure", self, <<val>>)>>,
          result |-> Return(pure(self, val))]
    ELSE IF val.trace.master = self.master
    THEN IF val.trace.sublevel.val = self.sublevel.val
         THEN [calls |-> <<>>, result |-> Return(val)]
         ELSE IF val.trace.sublevel.val < self.sublevel.val
         THEN [calls |-> <<Call("sublift", self, <<val>>)>>,
               result |-> Return(sublift(self, val))]
         ELSE [calls |-> <<>>,
               result |-> Raise("Exception", "Can't lift sublevels")]
    ELSE IF val.trace.level < self.level
    THEN IF FALSE
         THEN [calls |-> <<>>,
               result |-> Raise("Exception", "Incompatible sublevel")]
         ELSE [calls |-> <<Call("lift", self, <<val>>)>>,
               result |-> Return(lift(self, val))]
    ELSE IF val.trace.level > self.level
    THEN [calls |-> <<>>, result |-> Raise("Exception", "Can't lift")]
    ELSE [calls |-> <<>>,
          result |-> Raise("Exception", "Different traces at same level")]


\* Faulty variant: masters are compared with MasterTrace.__eq__ instead of `is`.
full_raise_master_eq(self, val) ==
    IF ~isTracer(val)
    THEN [calls |-> <<Call("pure", self, <<val>>)>>,
          result |-> Return(pure(self, val))]
    ELSE IF MasterTraceEq(val.trace.master, self.master)
    THEN IF val.trace.sublevel.val = self.sublevel.val
         THEN [calls |-> <<>>, result |-> Return(val)]
         ELSE IF val.trace.sublevel.val < self.sublevel.val
         THEN [calls |-> <<Call("sublift", self, <<val>>)>>,
               result |-> Return(sublift(self, val))]
         ELSE [calls |-> <<>>,
               result |-> Raise("Exception", "Can't lift sublevels")]
    ELSE IF val.trace.level < self.level
    THEN IF val.trace.sublevel.val > self.sublevel.val
         THEN [calls |-> <<>>,
               result |-> Raise("Exception", "Incompatible sublevel")]
         ELSE [calls |-> <<Call("lift", self, <<val>>)>>,
               result |-> Return(lift(self, val))]
    ELSE IF val.trace.level > self.level
    THEN [calls |-> <<>>, result |-> Raise("Exception", "Can't lift")]
    ELSE [calls |-> <<>>,
          result |-> Raise("Exception", "Different traces at same level")]


\* Faulty variant: a tracer of a lower level is returned as it is.
full_raise_no_lift(self, val) ==
    IF ~isTracer(val)
    THEN [calls |-> <<Call("pure", self, <<val>>)>>,
          result |-> Return(pure(self, val))]
    ELSE IF val.trace.master = self.master
    THEN IF val.trace.sublevel.val = self.sublevel.val
         THEN [calls |-> <<>>, result |-> Return(val)]
         ELSE IF val.trace.sublevel.val < self.sublevel.val
         THEN [calls |-> <<Call("sublift", self, <<val>>)>>,
               result |-> Return(sublift(self, val))]
         ELSE [calls |-> <<>>,
               result |-> Raise("Exception", "Can't lift sublevels")]
    ELSE IF val.trace.level < self.level
    THEN IF val.trace.sublevel.val > self.sublevel.val
         THEN [calls |-> <<>>,
               result |-> Raise("Exception", "Incompatible sublevel")]
         ELSE [calls |-> <<>>, result |-> Return(val)]
    ELSE IF val.trace.level > self.level
    THEN [calls |-> <<>>, result |-> Raise("Exception", "Can't lift")]
    ELSE [calls |-> <<>>,
          result |-> Raise("Exception", "Different traces at same level")]


\* Trace.full_raise: the interpreter calls it makes and how it ends
full_raise(self, val) ==
    IF ~isTracer(val)
    THEN [calls |-> <<Call("pure", self, <<val>>)>>,
          result |-> Return(pure(self, val))]
    ELSE IF val.trace.master = self.master
    THEN IF val.trace.sublevel.val = self.sublevel.val
         THEN [calls |-> <<>>, result |-> Return(val)]
         ELSE IF val.trace.sublevel.val < self.sublevel.val
         THEN [calls |-> <<Call("sublift", self, <<val>>)>>,
               result |-> Return(sublift(self, val))]
         ELSE [calls |-> <<>>,
               result |-> Raise("Exception", "Can't lift sublevels")]
    ELSE IF val.trace.level < self.level
    THEN IF val.trace.sublevel.val > self.sublevel.val
         THEN [calls |-> <<>>,
               result |-> Raise("Exception", "Incompatible sublevel")]
         ELSE [calls |-> <<Call("lift", self, <<val>>)>>,
               result |-> Return(lift(self, val))]
    ELSE IF val.trace.level > self.level
    THEN [calls |-> <<>>, result |-> Raise("Exception", "Can't lift")]
    ELSE [calls |-> <<>>,
          result |-> Raise("Exception", "Different traces at same level")]

\* Faulty variant: the raised operands are collected last operand first.
RECURSIVE map_full_raise_reversed(_, _)
map_full_raise_reversed(self, args) ==
    IF args = <<>> THEN [calls |-> <<>>, result |-> Return(<<>>)]
    ELSE LET head == map_full_raise_reversed(self, Tail(args))
             r == full_raise(self, Head(args))
         IN IF r.result.kind = "raise" THEN r
            ELSE IF head.result.kind = "raise"
            THEN [calls |-> r.calls \o head.calls, result |-> head.result]
            ELSE [calls |-> r.calls \o head.calls,
                  result |-> Return(Append(head.result.val, r.result.val))]

\* Faulty variant: an operand that cannot be raised is handed on as it is.
RECURSIVE map_full_raise_lenient(_, _)
map_full_raise_lenient(self, args) ==
    IF args = <<>> THEN [calls |-> <<>>, result |-> Return(<<>>)]
    ELSE LET head == map_full_raise_lenient(self, Front(args))
             r == full_raise(self, Last(args))
         IN [calls |-> head.calls \o r.calls,
             result |-> Return(Append(head.result.val,
                           IF r.result.kind = "raise" THEN Last(args)
                           ELSE r.result.val))]

\* map(top_trace.full_raise, args): left to right, ending at the first
\* operand that cannot be raised
RECURSIVE map_full_raise(_, _)
map_full_raise(self, args) ==
    IF args = <<>> THEN [calls |-> <<>>, result |-> Return(<<>>)]
    ELSE LET head == map_full_raise(self, Front(args))
             r == full_raise(self, Last(args))
         IN IF head.result.kind = "raise" THEN head
            ELSE IF r.result.kind = "raise"
            THEN [calls |-> head.calls \o r.calls, result |-> r.result]
            ELSE [calls |-> head.calls \o r.calls,
                  result |-> Return(Append(head.result.val, r.result.val))]

\* Primitive.bind
bind(primitive, args, sublevel) ==
    IF ~(skip_checks
         \/ \A i \in 1..Len(args) : isTracer(args[i]) \/ valid_jaxtype(args[i]))
    THEN [calls |-> <<>>, result |-> Raise("AssertionError", "args")]
    ELSE LET top_trace == find_top_trace(args, sublevel) IN
      IF top_trace = None
      THEN [calls |-> <<Call("impl", primitive, args)>>,
            result |-> Return(impl(primitive, args))]
      ELSE LET raised == map_full_raise(top_trace, args) IN
        IF raised.result.kind = "raise" THEN raised
        ELSE LET tracers == raised.result.val
                 out_tracer == process_primitive(top_trace, primitive, tracers)
             IN [calls |-> Append(raised.calls,
                      Call("process_primitive", top_trace, tracers)),
                 result |-> Return(
                    IF primitive.multiple_results
                    THEN [i \in 1..Len(out_tracer) |-> full_lower(out_tracer[i])]
                    ELSE full_lower(out_tracer))]

\* ------------------------------------------------------------------- call
\* call_p = Primitive('call')
call_p == Primitive("call", FALSE)

\* The finalizer a post_process_call hands back: a closure over the
\* interpreter that made it.
Todo(self) == [kind |-> "todo", trace |-> self]

\* Trace.post_process_call of a subclass: returns the outputs the interpreter
\* takes out of its tracers (response, the interpreter's choice) and the
\* finalizer that will put them back.
post_process_call(self, primitive, outs, response) == <<response, Todo(self)>>

\* A finalizer applied to outputs: wraps each in a tracer of its interpreter's
\* activation at the current sublevel.
run_todo(todo, outs, sublevel) ==
    [i \in 1..Len(outs) |->
        Tracer(Trace(todo.trace.ttype, todo.trace.master, sublevel), "todo")]

\* Faulty variant: tracers of the call's own level are taken too.
env_tracers_at_level(outs, level) ==
    SelectSeq(outs, LAMBDA x : isTracer(x) /\ x.trace.level >= level)

\* Faulty variant: tracers one level above the call's are left alone.
env_tracers_above_next(outs, level) ==
    SelectSeq(outs, LAMBDA x : isTracer(x) /\ x.trace.level > level + 1)

\* process_env_traces: [x for x in outs
\*                      if isinstance(x, Tracer) and x.trace.level > level]
env_tracers(outs, level) ==
    SelectSeq(outs, LAMBDA x : isTracer(x) /\ x.trace.level > level)

\* Faulty variant: the newest finalizer goes to the front of the list.
prepend_todo(todo, cur_todo) == <<cur_todo>> \o todo

\* process_env_traces: todo.append(cur_todo)
append_todo(todo, cur_todo) == Append(todo, cur_todo)

\* process_env_traces from the first yield on: the while loop over the
\* outputs outs of the called function, for a call of level level, run at
\* sublevel sublevel; responses[i] is what the i-th post_process_call hands
\* back.  The result is the pair (outs, todo) of the second yield, an
\* exception of full_raise, or "unfinished" when the responses run out.
RECURSIVE process_env_traces(_, _, _, _, _, _)
process_env_traces(primitive, level, outs, todo, sublevel, responses) ==
    LET tracers == env_tracers(outs, level) IN
    IF tracers = <<>>
    THEN [calls |-> <<>>, result |-> Return(<<outs, todo>>)]
    ELSE LET ans == tracers[MaxLevelIndex(tracers)]
             trace == Trace(ans.trace.ttype, ans.trace.master, sublevel)
             raised == map_full_raise(trace, outs)
         IN IF raised.result.kind = "raise" THEN raised
            ELSE IF responses = <<>>
            THEN [calls |-> raised.calls, result |-> [kind |-> "unfinished"]]
            ELSE LET post == post_process_call(trace, primitive,
                                 raised.result.val, Head(responses))
                     rest == process_env_traces(primitive, level, post[1],
                                 append_todo(todo, post[2]), sublevel,
                                 Tail(responses))
                 IN [calls |-> Append(raised.calls,
                          Call("post_process_call", trace, raised.result.val))
                          \o rest.calls,
                     result |-> rest.result]

\* Faulty variant: the oldest finalizer is taken first.
todos_pop_first(todos) == 1

\* apply_todos: todos.pop() takes the finalizer at this position
todos_pop(todos) == Len(todos)

\* apply_todos
RECURSIVE apply_todos(_, _, _)
apply_todos(todos, outs, sublevel) ==
    IF todos = <<>> THEN [calls |-> <<>>, result |-> Return(outs)]
    ELSE LET i == todos_pop(todos)
             applied == run_todo(todos[i], outs, sublevel)
             rest == apply_todos(
                         SubSeq(todos, 1, i - 1) \o SubSeq(todos, i + 1, Len(todos)),
                         [j \in 1..Len(applied) |-> full_lower(applied[j])],
                         sublevel)
         IN [calls |-> <<Call("todo", todos[i].trace, outs)>> \o rest.calls,
             result |-> rest.result]

\* ----------------------------------------------------------------- jaxprs
\* A variable of a jaxpr: an object used as a key of the environment.
Var(name) == [kind |-> "Var", name |-> name]

\* unitvar = UnitVar()
unitvar == [kind |-> "UnitVar", name |-> "*"]

\* A Python list: an object with an identity, unhashable, equal to another
\* list when the contents are equal.
ListVal(id, val) == [kind |-> "value", pytype |-> "list", id |-> id, val |-> val]

\* An object of an array type that a provider has registered as
\* literal-able: unhashable, with item() and dtype, equal to another array
\* when the payloads are equal.
ArrVal(id, val) == [kind |-> "value", pytype |-> "Arr", id |-> id, val |-> val]

\* An object of a type that a provider has registered as literal-able and
\* that is unhashable and has no item(): it is equal only to itself.
BoxVal(id) == [kind |-> "value", pytype |-> "Box", id |-> id, val |-> 0]

\* literalable_types = set(); literalable_types.add(Unit); the providers'
\* registrations
literalable_types == {"Unit", "Arr", "Box"}

\* The hash of a Python object stands for what it is computed from: the
\* value, a surrogate pair or the identity.
HashOf(by, of) == [kind |-> "hash", by |-> by, of |-> of]

\* hash(val)
py_hash(val) ==
    IF val.pytype = "int" THEN Return(HashOf("value", <<val.val>>))
    ELSE IF val.pytype \in {"Unit", "object"} THEN Return(HashOf("id", <<0>>))
    ELSE Raise("TypeError", "unhashable type")

\* hash((val.item(), val.dtype))
surrogate_hash(val) ==
    IF val.pytype = "Arr" THEN Return(HashOf("surrogate", <<val.val, 0>>))
    ELSE Raise("AttributeError", "item")

\* id(val)
py_id(val) == HashOf("id", <<val.id>>)

\* a is b
py_is(a, b) == a = b

\* a == b: by value for numbers, lists and arrays, by identity for the rest
py_eq(a, b) ==
    IF a.pytype \in {"int", "list", "Arr"}
    THEN a.pytype = b.pytype /\ a.val = b.val
    ELSE a = b

\* A slot of an object that was never assigned.
Unset == [kind |-> "unset"]

\* Literal.__init__: the slot `hash`
literal_hash(val) ==
    IF py_hash(val).kind = "return" THEN py_hash(val).val
    ELSE IF val.pytype \in literalable_types
    THEN IF surrogate_hash(val).kind = "return" THEN surrogate_hash(val).val
         ELSE None
    ELSE Unset

\* class Literal
Literal(val) == [kind |-> "Literal", val |-> val, hash |-> literal_hash(val)]

\* Literal.__hash__
literal__hash__(self) ==
    IF self.hash = Unset THEN Raise("AttributeError", "hash")
    ELSE IF self.hash = None THEN Return(py_id(self.val))
    ELSE Return(self.hash)

\* Faulty variant: two literals are equal when their hash slots are.
literal__eq__by_hash(self, other) ==
    IF self.hash = Unset THEN Raise("AttributeError", "hash")
    ELSE Return(self.hash = other.hash)

\* Literal.__eq__
literal__eq__(self, other) ==
    IF self.hash = Unset THEN Raise("AttributeError", "hash")
    ELSE IF self.hash = None THEN Return(py_is(self.val, other.val))
    ELSE Return(py_eq(self.val, other.val))

\* type(v) is Literal
isLiteral(v) == v.kind = "Literal"

\* JaxprEqn; bound_subjaxprs is a sequence of triples
\* <<subjaxpr, const_bindings, freevar_bindings>>
JaxprEqn(invars, outvars, primitive, bound_subjaxprs) ==
    [invars |-> invars, outvars |-> outvars, primitive |-> primitive,
     bound_subjaxprs |-> bound_subjaxprs]

\* class Jaxpr
Jaxpr(constvars, freevars, invars, outvars, eqns) ==
    [constvars |-> constvars, freevars |-> freevars, invars |-> invars,
     outvars |-> outvars, eqns |-> eqns]

\* type(jaxpr) is Jaxpr
isJaxpr(x) ==
    DOMAIN x = {"constvars", "freevars", "invars", "outvars", "eqns"}

\* TypedJaxpr.__init__
TypedJaxpr(jaxpr, literals, in_avals, out_avals) ==
    IF ~isJaxpr(jaxpr) THEN Raise("AssertionError", "")
    ELSE IF Len(literals) # Len(jaxpr.constvars) THEN Raise("AssertionError", "")
    ELSE IF Len(in_avals) # Len(jaxpr.invars) THEN Raise("AssertionError", "")
    ELSE IF \E i \in 1..Len(in_avals) : ~isAbstractValue(in_avals[i])
    THEN Raise("AssertionError", "")
    ELSE IF \E i \in 1..Len(out_avals) : ~isAbstractValue(out_avals[i])
    THEN Raise("AssertionError", "")
    ELSE IF jaxpr.freevars # <<>> THEN Raise("AssertionError", "")
    ELSE Return([jaxpr |-> jaxpr, literals |-> literals,
                 in_avals |-> in_avals, out_avals |-> out_avals])

\* The first exception of steps taken in order, each given by the
\* exception it raises (None when it raises none).
RECURSIVE first_raised(_)
first_raised(steps) ==
    IF Len(steps) = 0 THEN None
    ELSE IF Head(steps) # None THEN Head(steps)
    ELSE first_raised(Tail(steps))

\* Literal.__repr__, by the exception it raises (None when it gives the
\* text): `self.hash is None` reads the slot hash, and the branch taken
\* when it is None reads `self.hashable`, which no Literal has
literal__repr__(self) ==
    IF self.hash = Unset THEN Raise("AttributeError", "hash")
    ELSE IF self.hash = None THEN Raise("AttributeError", "hashable")
    ELSE None

\* str(v) of a variable or a literal, by the exception it raises
py_str(v) == IF isLiteral(v) THEN literal__repr__(v) ELSE None

\* pp_jaxpr.print_vars, by the exception it raises
print_vars(vs) == first_raised([i \in 1..Len(vs) |-> py_str(vs[i])])

RECURSIVE pp_jaxpr(_)

\* pp_jaxpr.pp_eqn: the body of `for subjaxpr, const_vars, bound_vars in
\* eqn.bound_subjaxprs`, by the exception it raises
pp_subexpr(bound) ==
    first_raised(<<pp_jaxpr(bound[1]), print_vars(bound[2]),
                   print_vars(bound[3])>>)

\* pp_jaxpr.pp_eqn, by the exception it raises
pp_eqn(eqn) ==
    first_raised(<<print_vars(eqn.outvars),
                   first_raised([i \in 1..Len(eqn.bound_subjaxprs) |->
                                    pp_subexpr(eqn.bound_subjaxprs[i])]),
                   print_vars(eqn.invars)>>)

\* pp_jaxpr, by the exception it raises
pp_jaxpr(jaxpr) ==
    first_raised(<<print_vars(jaxpr.constvars), print_vars(jaxpr.freevars),
                   print_vars(jaxpr.invars),
                   first_raised([i \in 1..Len(jaxpr.eqns) |->
                                    pp_eqn(jaxpr.eqns[i])]),
                   print_vars(jaxpr.outvars)>>)

\* check_jaxpr.context: "\njaxpr:\n{}\n".format(jaxpr) prints the graph
\* being checked
context(jaxpr) == pp_jaxpr(jaxpr)

\* check_jaxpr.read_env: `raise Exception("Variable '{}' not
\* defined".format(v) + context())`, by the exception that comes out
NotDefined(jaxpr, v) ==
    IF first_raised(<<py_str(v), context(jaxpr)>>) # None
    THEN first_raised(<<py_str(v), context(jaxpr)>>)
    ELSE Raise("Exception", [text |-> "Variable '{}' not defined", var |-> v])

\* check_jaxpr.write_env: `raise Exception("Variable {} already
\* bound".format(v) + context())`, by the exception that comes out
AlreadyBound(jaxpr, v) ==
    IF first_raised(<<py_str(v), context(jaxpr)>>) # None
    THEN first_raised(<<py_str(v), context(jaxpr)>>)
    ELSE Raise("Exception", [text |-> "Variable {} already bound", var |-> v])

\* The walk of check_jaxpr so far: the graph jaxpr being checked, the set
\* env, the exception raised (None while there is none) and the calls made
\* to primitives.
CheckState(jaxpr, env, error) ==
    [jaxpr |-> jaxpr, env |-> env, error |-> error, calls |-> <<>>]

\* hash(v) of a variable or a literal used as a member of a set or as a key
\* of a dict: Literal.__hash__ for a literal, the hash of object for the rest
key_hash(v) ==
    IF isLiteral(v) THEN literal__hash__(v) ELSE Return(HashOf("id", <<v>>))

\* The member of keys that a set or dict takes v to be: one with the hash of
\* v that is v or compares equal to it.  v itself when there is none.
same_key(keys, v) ==
    IF v \in keys \/ ~isLiteral(v) THEN v
    ELSE IF \E w \in keys : /\ isLiteral(w)
                            /\ key_hash(w) = key_hash(v)
                            /\ literal__eq__(w, v) = Return(TRUE)
    THEN CHOOSE w \in keys : /\ isLiteral(w)
                            /\ key_hash(w) = key_hash(v)
                            /\ literal__eq__(w, v) = Return(TRUE)
    ELSE v

\* check_jaxpr.read_env, skipped once an exception is on its way: `v not in
\* env` hashes v before `type(v) is not Literal` is looked at
read_env(st, v) ==
    IF st.error # None THEN st
    ELSE IF key_hash(v).kind = "raise"
    THEN [st EXCEPT !.error = key_hash(v)]
    ELSE IF same_key(st.env, v) \notin st.env /\ ~isLiteral(v)
    THEN [st EXCEPT !.error = NotDefined(st.jaxpr, v)]
    ELSE st

\* check_jaxpr.write_env, skipped once an exception is on its way: `v in
\* env` hashes v
write_env(st, v) ==
    IF st.error # None THEN st
    ELSE IF key_hash(v).kind = "raise"
    THEN [st EXCEPT !.error = key_hash(v)]
    ELSE IF same_key(st.env, v) \in st.env
    THEN [st EXCEPT !.error = AlreadyBound(st.jaxpr, v)]
    ELSE [st EXCEPT !.env = @ \cup {v}]

\* map(read, vs)
RECURSIVE map_read_env(_, _)
map_read_env(st, vs) ==
    IF vs = <<>> THEN st
    ELSE read_env(map_read_env(st, Front(vs)), Last(vs))

\* map(write, vs)
RECURSIVE map_write_env(_, _)
map_write_env(st, vs) ==
    IF vs = <<>> THEN st
    ELSE write_env(map_write_env(st, Front(vs)), Last(vs))

RECURSIVE check_jaxpr(_)

\* Faulty variant: the bindings of a sub-program are not looked up in the
\* enclosing scope.
check_bound_subjaxpr_unread(st, bound) ==
    LET sub == check_jaxpr(bound[1])
    IN IF st.error # None THEN st
       ELSE [st EXCEPT !.error = sub.error, !.calls = @ \o sub.calls]

\* check_jaxpr: the body of `for subjaxpr, constvars, freevars in
\* eqn.bound_subjaxprs`, for one triple
check_bound_subjaxpr(st, bound) ==
    LET bindings == map_read_env(map_read_env(st, bound[3]), bound[2])
        sub == check_jaxpr(bound[1])
    IN IF bindings.error # None THEN bindings
       ELSE [bindings EXCEPT !.error = sub.error,
                             !.calls = @ \o sub.calls]

RECURSIVE check_bound_subjaxprs(_, _)
check_bound_subjaxprs(st, bounds) ==
    IF bounds = <<>> THEN st
    ELSE check_bound_subjaxpr(check_bound_subjaxprs(st, Front(bounds)),
                              Last(bounds))

\* Faulty variant: the outputs of the equation are written before its inputs
\* and bindings are read.
check_eqn_writes_first(st, eqn) ==
    check_bound_subjaxprs(
        map_read_env(map_write_env(st, eqn.outvars), eqn.invars),
        eqn.bound_subjaxprs)

\* check_jaxpr: the body of `for eqn in jaxpr.eqns`
check_eqn(st, eqn) ==
    map_write_env(
        check_bound_subjaxprs(map_read_env(st, eqn.invars),
                              eqn.bound_subjaxprs),
        eqn.outvars)

RECURSIVE check_eqns(_, _)
check_eqns(st, eqns) ==
    IF eqns = <<>> THEN st
    ELSE check_eqn(check_eqns(st, Front(eqns)), Last(eqns))

\* Faulty variant: the outputs of the graph are not looked up.
check_jaxpr_outvars_unread(jaxpr) ==
    check_eqns(
        map_write_env(
          map_write_env(
            map_write_env(
              write_env(CheckState(jaxpr, {}, None), unitvar),
              jaxpr.constvars),
            jaxpr.freevars),
          jaxpr.invars),
        jaxpr.eqns)

\* check_jaxpr: the state of its walk when it returns or raises
check_jaxpr(jaxpr) ==
    LET declared ==
            map_write_env(
              map_write_env(
                map_write_env(
                  write_env(CheckState(jaxpr, {}, None), unitvar),
                  jaxpr.constvars),
                jaxpr.freevars),
              jaxpr.invars)
    IN map_read_env(check_eqns(declared, jaxpr.eqns), jaxpr.outvars)

\* ------------------------------------------------------------------ state
\* check_leaks      the module flag check_leaks
\* skip_checks      the module flag skip_checks
\* trace_state[k]   the TraceState instance a thread reaches through StateOf
\* scopes[t]        the with-blocks thread t is inside, outermost first: the
\*                  suspended new_master / new_sublevel generators, each with
\*                  its locals and the TraceState it found at entry
\* live_tracers[t]  the tracers the code running in thread t holds
\* last             the latest operation: its operands, the calls it made to
\*                  the interpreter contract, and its result

\* The objects the program still references.
Masters(k) ==
    Range(trace_state[k].trace_stack.upward)
        \cup Range(trace_state[k].trace_stack.downward)

ScopeMasters(t) ==
    {scopes[t][i].master :
        i \in {j \in 1..Len(scopes[t]) : scopes[t][j].kind = "new_master"}}

ScopeSublevels(t) ==
    {scopes[t][i].sublevel :
        i \in {j \in 1..Len(scopes[t]) : scopes[t][j].kind = "new_sublevel"}}

AllTracers == UNION {live_tracers[t] : t \in Threads}

LiveMasters ==
    UNION {Masters(StateOf(t)) \cup ScopeMasters(t) : t \in Threads}
        \cup {x.trace.master : x \in AllTracers}

LiveSublevels ==
    UNION {Range(trace_state[StateOf(t)].substack) \cup ScopeSublevels(t) :
              t \in Threads}
        \cup {x.trace.sublevel : x \in AllTracers}

\* A new object is none of the live ones: among the live objects that agree
\* with it on every other field it gets the smallest unused id.
NewMasterId(level) == FreshId({m.id : m \in {n \in LiveMasters : n.level = level}})

NewSublevelId(val) == FreshId({s.id : s \in {u \in LiveSublevels : u.val = val}})

\* Sequences of at most n elements of S.
SeqsUpTo(S, n) == UNION {[1..k -> S] : k \in 0..n}

\* The values code running in thread t can pass to an operation.
Operands(t) == live_tracers[t] \cup {unit, opaque}

\* No operation is in progress: the caller has taken the result of the last.
Idle == [op |-> "none"]

\* Trace.process_call of a subclass: runs the called function f, here given
\* by what it returns once process_env_traces has gone over its outputs
process_call(self, primitive, f, tracers) == f

\* call_impl: f.call_wrapped(*args)
call_impl(f, args) == f

\* Faulty variant: with no tracer operand the call takes the next level at
\* the top of the stack.
call_level_top(top_trace, stack) ==
    IF top_trace = None THEN next_level(stack, FALSE) ELSE top_trace.level

\* call_bind: `level = trace_state.trace_stack.next_level(True) if top_trace
\* is None else top_trace.level`
call_level(top_trace, stack) ==
    IF top_trace = None THEN next_level(stack, TRUE) ELSE top_trace.level

\* A called function that makes no call to a primitive and returns body.
Returning(body) == [calls |-> <<>>, result |-> Return(body)]

\* The TypeError of `ref(sublevel)`: a Sublevel is an int, of which no weak
\* reference can be made.
NoWeakReference ==
    Raise("TypeError", "cannot create weak reference to 'Sublevel' object")

\* call_bind: the substack while the called function runs, ts being the
\* TraceState of the calling thread.  With no tracer among the operands the
\* function runs inside `with new_sublevel():`, which pushes a Sublevel;
\* with one it runs in the caller's sublevel.
call_entered(ts, args) ==
    IF find_top_trace(args, Last(ts.substack)) = None
    THEN Append(ts.substack,
                Sublevel(next_sublevel(ts.substack),
                         NewSublevelId(next_sublevel(ts.substack))))
    ELSE ts.substack

\* call_bind called by a thread whose TraceState is ts.  f is what the
\* called function does once it is run (on the substack of call_entered),
\* before process_env_traces goes over its outputs: the calls it makes to
\* primitives and what it returns or raises; responses as in
\* process_env_traces.
call_bind(ts, primitive, f, args, responses) ==
    LET top_trace == find_top_trace(args, Last(ts.substack))
        level == call_level(top_trace, ts.trace_stack)
        entered == call_entered(ts, args)
        raised == IF top_trace = None
                  THEN [calls |-> <<>>, result |-> Return(args)]
                  ELSE map_full_raise(top_trace, args)
        first == IF top_trace = None
                 THEN Call("impl", primitive, args)
                 ELSE Call("process_call", top_trace, raised.result.val)
        env == IF f.result.kind = "raise"
               THEN [calls |-> <<>>, result |-> f.result]
               ELSE process_env_traces(primitive, level, f.result.val, <<>>,
                        Last(entered), responses)
    IN IF raised.result.kind = "raise"
       THEN [level |-> level, yielded |-> None, entered |-> entered,
             calls |-> raised.calls, result |-> raised.result]
       ELSE IF env.result.kind # "return"
       THEN [level |-> level, yielded |-> None, entered |-> entered,
             calls |-> Append(raised.calls, first) \o f.calls \o env.calls,
             result |-> env.result]
       ELSE IF top_trace = None /\ check_leaks
       THEN \* `with new_sublevel():` ends with its leak check
            [level |-> level, yielded |-> env.result, entered |-> entered,
             calls |-> Append(raised.calls, first) \o f.calls \o env.calls,
             result |-> NoWeakReference]
       ELSE LET wrapped == env.result.val[1]
                outs == IF top_trace = None
                        THEN call_impl(wrapped, args)
                        ELSE LET out == process_call(top_trace, primitive,
                                            wrapped, raised.result.val)
                             IN [i \in 1..Len(out) |-> full_lower(out[i])]
                done == apply_todos(env.result.val[2], outs,
                                    Last(ts.substack))
            IN [level |-> level, yielded |-> env.result, entered |-> entered,
                calls |-> Append(raised.calls, first) \o f.calls
                              \o env.calls \o done.calls,
                result |-> done.result]

\* ------------------------------------------------------------- eval_jaxpr
\* eval_jaxpr.read
read(env, v) ==
    IF isLiteral(v) THEN Return(v.val)
    ELSE IF v \in DOMAIN env THEN Return(env[v])
    ELSE Raise("KeyError", v)

\* map(read, vs): ends at the first variable that has no value
RECURSIVE map_read(_, _)
map_read(env, vs) ==
    IF vs = <<>> THEN Return(<<>>)
    ELSE LET head == map_read(env, Front(vs))
             r == read(env, Last(vs))
         IN IF head.kind = "raise" THEN head
            ELSE IF r.kind = "raise" THEN r
            ELSE Return(Append(head.val, r.val))

\* The run of eval_jaxpr so far: its dict env, the exception raised (None
\* while there is none), the calls made to primitives, and the value of env
\* at the start of the loop and after each equation.
EvalState(env) == [env |-> env, error |-> None, calls |-> <<>>, envs |-> <<>>]

\* A local variable: f is a function of the one value the variable is
\* given, which is computed once, and Once(f) is what f makes of it.
Once(f) == f[CHOOSE x \in DOMAIN f : TRUE]

\* eval_jaxpr.write, skipped once an exception is on its way: `env[v] =
\* val` hashes v, and an equal key that env has keeps its place
write(st, v, val) ==
    IF st.error # None THEN st
    ELSE IF key_hash(v).kind = "raise"
    THEN [st EXCEPT !.error = key_hash(v)]
    ELSE [st EXCEPT !.env = (same_key(DOMAIN @, v) :> val) @@ @]

RECURSIVE write_each(_, _, _)
write_each(st, vs, vals) ==
    IF vs = <<>> THEN st
    ELSE write(write_each(st, Front(vs), Front(vals)), Last(vs), Last(vals))

\* map(write, vs, vals), map being safe_map: the lengths are compared first
map_write(st, vs, vals) ==
    IF st.error # None THEN st
    ELSE IF Len(vs) # Len(vals)
    THEN [st EXCEPT !.error = Raise("AssertionError", "length mismatch")]
    ELSE write_each(st, vs, vals)

\* Faulty variant: every input is given the first argument.
write_arguments_first(st, jaxpr, consts, freevar_vals, args) ==
    map_write(
      map_write(
        map_write(st, jaxpr.constvars, consts),
        jaxpr.invars, [i \in 1..Len(args) |-> args[1]]),
      jaxpr.freevars, freevar_vals)

\* eval_jaxpr: map(write, jaxpr.constvars, consts), map(write, jaxpr.invars,
\* args), map(write, jaxpr.freevars, freevar_vals)
write_arguments(st, jaxpr, consts, freevar_vals, args) ==
    map_write(
      map_write(
        map_write(st, jaxpr.constvars, consts),
        jaxpr.invars, args),
      jaxpr.freevars, freevar_vals)

\* lu.wrap_init(partial(eval_jaxpr, subjaxpr, consts, freevar_vals))
Subfun(subjaxpr, consts, freevar_vals) ==
    [kind |-> "fun", jaxpr |-> subjaxpr, consts |-> consts,
     freevar_vals |-> freevar_vals]

\* eval_jaxpr: the list subfuns of an equation
RECURSIVE map_subfuns(_, _)
map_subfuns(env, bounds) ==
    IF bounds = <<>> THEN Return(<<>>)
    ELSE LET head == map_subfuns(env, Front(bounds))
             consts == map_read(env, Last(bounds)[2])
             freevar_vals == map_read(env, Last(bounds)[3])
         IN IF head.kind = "raise" THEN head
            ELSE IF consts.kind = "raise" THEN consts
            ELSE IF freevar_vals.kind = "raise" THEN freevar_vals
            ELSE Return(Append(head.val,
                     Subfun(Last(bounds)[1], consts.val, freevar_vals.val)))

\* Faulty variant: the result of a single-result primitive goes to the last
\* output variable of the equation.
write_results_last(st, eqn, ans) ==
    IF eqn.primitive.multiple_results
    THEN map_write(st, eqn.outvars, ans)
    ELSE IF eqn.outvars = <<>>
    THEN [st EXCEPT !.error = Raise("IndexError", "list index out of range")]
    ELSE write(st, Last(eqn.outvars), ans)

\* eval_jaxpr: `if eqn.primitive.multiple_results: map(write, eqn.outvars,
\* ans) else: write(eqn.outvars[0], ans)`
write_results(st, eqn, ans) ==
    IF eqn.primitive.multiple_results
    THEN map_write(st, eqn.outvars, ans)
    ELSE IF eqn.outvars = <<>>
    THEN [st EXCEPT !.error = Raise("IndexError", "list index out of range")]
    ELSE write(st, eqn.outvars[1], ans)

RECURSIVE eval_jaxpr(_, _, _, _, _, _)

\* What is left of responses once the post_process_call invocations among
\* calls have each taken one.
left_over(responses, calls) ==
    SubSeq(responses,
           Len(SelectSeq(calls, LAMBDA c : c.fn = "post_process_call")) + 1,
           Len(responses))

\* eqn.primitive.bind(*(subfuns + in_vals)) by a thread whose TraceState is
\* ts: call_bind for the call primitive (def_custom_bind), Primitive.bind for
\* the others.  The function of a call is the sub-program wrapped by
\* lu.wrap_init(partial(eval_jaxpr, ...)): call_bind runs it through
\* primitive.impl inside the sublevel it has entered when no operand is a
\* tracer, and through process_call on the raised operands, in the caller's
\* sublevel, when one is; it is not run when raising the operands fails.
\* responses[i] is what the i-th post_process_call from here on hands back:
\* those of the calls the sub-program makes come first, those of the call
\* itself after them.
primitive_bind(ts, primitive, args, responses) ==
    IF primitive.name # "call" THEN bind(primitive, args, Last(ts.substack))
    ELSE IF args = <<>>
    THEN [calls |-> <<>>, result |-> Raise("TypeError", "missing argument f")]
    ELSE IF Head(args).kind # "fun"
    THEN [calls |-> <<>>, result |-> Raise("AttributeError", "wrap")]
    ELSE LET fun == Head(args)
             top_trace == find_top_trace(Tail(args), Last(ts.substack))
         IN
         Once([given \in {IF top_trace = None THEN Return(Tail(args))
                          ELSE map_full_raise(top_trace, Tail(args)).result} |->
         Once([f \in {IF given.kind = "raise" THEN Returning(<<>>)
                      ELSE eval_jaxpr(
                               [ts EXCEPT
                                  !.substack = call_entered(ts, Tail(args))],
                               fun.jaxpr, fun.consts, fun.freevar_vals,
                               given.val, responses)} |->
         Once([called \in {call_bind(ts, primitive,
                                     [calls |-> f.calls, result |-> f.result],
                                     Tail(args),
                                     left_over(responses, f.calls))} |->
              [calls |-> called.calls, result |-> called.result]])])])

\* eval_jaxpr: the body of `for eqn in jaxpr.eqns`; a bind that did not
\* return ends the run
eval_eqn(ts, st, eqn, responses) ==
    IF st.error # None THEN st
    ELSE Once([in_vals \in {map_read(st.env, eqn.invars)} |->
         IF in_vals.kind = "raise" THEN [st EXCEPT !.error = in_vals]
         ELSE Once([subfuns \in {map_subfuns(st.env, eqn.bound_subjaxprs)} |->
         IF subfuns.kind = "raise" THEN [st EXCEPT !.error = subfuns]
         ELSE Once([ans \in {primitive_bind(ts, eqn.primitive,
                                 subfuns.val \o in_vals.val,
                                 left_over(responses, st.calls))} |->
         IF ans.result.kind # "return"
         THEN [st EXCEPT !.error = ans.result, !.calls = @ \o ans.calls]
         ELSE Once([written \in {write_results(
                                    [st EXCEPT !.calls = @ \o ans.calls],
                                    eqn, ans.result.val)} |->
         IF written.error # None THEN written
         ELSE [written EXCEPT !.envs = Append(@, written.env)]])])])])

RECURSIVE eval_eqns(_, _, _, _)
eval_eqns(ts, st, eqns, responses) ==
    IF eqns = <<>> THEN st
    ELSE Once([done \in {eval_eqns(ts, st, Front(eqns), responses)} |->
                  eval_eqn(ts, done, Last(eqns), responses)])

\* eval_jaxpr: return map(read, jaxpr.outvars)
read_outvars(env, outvars) == map_read(env, outvars)

\* eval_jaxpr called by a thread whose TraceState is ts; responses[i] is
\* what the i-th post_process_call of the run hands back
eval_jaxpr(ts, jaxpr, consts, freevar_vals, args, responses) ==
    Once([declared \in {write_arguments(write(EvalState(<<>>), unitvar, unit),
                                        jaxpr, consts, freevar_vals, args)} |->
    Once([ran \in {eval_eqns(ts, [declared EXCEPT !.envs = <<declared.env>>],
                             jaxpr.eqns, responses)} |->
    [calls |-> ran.calls, envs |-> ran.envs,
     result |-> IF ran.error # None THEN ran.error
                ELSE read_outvars(ran.env, jaxpr.outvars)]])])

Init ==
    /\ check_leaks = FALSE
    /\ skip_checks = TRUE
    /\ trace_state = [k \in Threads |-> TraceState]
    /\ scopes = [t \in Threads |-> <<>>]
    /\ live_tracers = [t \in Threads |-> {}]
    /\ last = Idle

\* ---------------------------------------------------------------- actions
\* `with new_master(trace_type, bottom) as master:` up to the yield
EnterMaster(t, trace_type, bottom) ==
    /\ last = Idle
    /\ Len(scopes[t]) < MaxScopes
    /\ LET k == StateOf(t)
           level == next_level(trace_state[k].trace_stack, bottom)
           master == MasterTrace(NewMasterId(level), level, trace_type)
       IN /\ trace_state' = [trace_state EXCEPT
                 ![k].trace_stack = push(@, master, bottom)]
          /\ scopes' = [scopes EXCEPT ![t] = Append(@,
                 [kind |-> "new_master", bottom |-> bottom, master |-> master,
                  entry |-> trace_state[k]])]
          /\ last' = [op |-> "new_master", thread |-> t, calls |-> <<>>,
                      result |-> Return(master)]
    /\ UNCHANGED <<check_leaks, skip_checks, live_tracers>>

\* `with new_sublevel():` up to the yield
EnterSublevel(t) ==
    /\ last = Idle
    /\ Len(scopes[t]) < MaxScopes
    /\ LET k == StateOf(t)
           val == next_sublevel(trace_state[k].substack)
           sublevel == Sublevel(val, NewSublevelId(val))
       IN /\ trace_state' = [trace_state EXCEPT
                 ![k].substack = Append(@, sublevel)]
          /\ scopes' = [scopes EXCEPT ![t] = Append(@,
                 [kind |-> "new_sublevel", sublevel |-> sublevel,
                  entry |-> trace_state[k]])]
          /\ last' = [op |-> "new_sublevel", thread |-> t, calls |-> <<>>,
                      result |-> Return(None)]
    /\ UNCHANGED <<check_leaks, skip_checks, live_tracers>>

\* What still refers to the master a new_master scope made once the scope
\* has dropped it: a tracer whose interpreter holds it, or (held) a variable
\* of the code around the with-block.
referenced(frame, held) ==
    \/ held
    \/ \E x \in AllTracers : x.trace.master = frame.master

\* Faulty variant: the leak check never finds a reference.
leak_check_blind(frame, held) == Return(None)

\* new_master / new_sublevel after the finally clause:
\* `if check_leaks: t = ref(master); del master; if t() is not None: raise`
\* for a master; for a sublevel `t = ref(sublevel)` raises, a Sublevel being
\* an int
leak_check(frame, held) ==
    IF ~check_leaks THEN Return(None)
    ELSE IF frame.kind = "new_sublevel" THEN NoWeakReference
    ELSE IF referenced(frame, held) THEN Raise("Exception", "Leaked trace")
    ELSE Return(None)

\* The innermost with-block of thread t ends: normally, or (exc) by an
\* exception raised in its body, the code around it holding (held) or not a
\* reference to the object the scope made.  new_master / new_sublevel from
\* the yield on.
Leave(t, exc, held) ==
    /\ last = Idle
    /\ scopes[t] # <<>>
    /\ LET k == StateOf(t)
           frame == Last(scopes[t])
       IN /\ trace_state' =
                 IF frame.kind = "new_master"
                 THEN [trace_state EXCEPT
                          ![k].trace_stack = pop(@, frame.bottom)]
                 ELSE [trace_state EXCEPT ![k].substack = Front(@)]
          /\ scopes' = [scopes EXCEPT ![t] = Front(@)]
          /\ last' = [op |-> "exit", thread |-> t, frame |-> frame,
                      exc |-> exc, held |-> held, calls |-> <<>>,
                      result |->
                          IF exc THEN Raise("Exception", "raised in the body")
                          ELSE leak_check(frame, held)]
    /\ UNCHANGED <<check_leaks, skip_checks, live_tracers>>

\* The same, the code around the with-block keeping no reference.
Exit(t, exc) == Leave(t, exc, FALSE)

\* A transformation running in thread t, inside the scope of master, builds
\* a tracer: Tracer(trace_type(master, cur_sublevel())).
MakeTracer(t, master) ==
    /\ last = Idle
    /\ Cardinality(live_tracers[t]) < MaxTracers
    /\ master \in ScopeMasters(t)
    /\ LET x == Tracer(Trace(master.trace_type, master, cur_sublevel(t)), "new")
       IN /\ x \notin live_tracers[t]
          /\ live_tracers' = [live_tracers EXCEPT ![t] = @ \cup {x}]
    /\ UNCHANGED <<check_leaks, skip_checks, trace_state, scopes, last>>

\* The code running in thread t drops its last reference to a tracer.
DropTracer(t, x) ==
    /\ last = Idle
    /\ x \in live_tracers[t]
    /\ live_tracers' = [live_tracers EXCEPT ![t] = @ \ {x}]
    /\ UNCHANGED <<check_leaks, skip_checks, trace_state, scopes, last>>

\* primitive.bind(*args) called in thread t
Bind(t, primitive, args) ==
    /\ last = Idle
    /\ LET r == bind(primitive, args, cur_sublevel(t))
       IN last' = [op |-> "bind", thread |-> t, primitive |-> primitive,
                   args |-> args, sublevel |-> cur_sublevel(t),
                   calls |-> r.calls, result |-> r.result]
    /\ UNCHANGED <<check_leaks, skip_checks, trace_state, scopes, live_tracers>>

\* The interpreters thread t can call full_raise on: one it builds for a
\* master whose scope it is in, or the trace of a tracer it holds.
Targets(t) ==
    {Trace(m.trace_type, m, cur_sublevel(t)) : m \in ScopeMasters(t)}
        \cup {x.trace : x \in live_tracers[t]}

\* self.full_raise(val) called in thread t
FullRaise(t, self, val) ==
    /\ last = Idle
    /\ LET r == full_raise(self, val)
       IN last' = [op |-> "full_raise", thread |-> t, self |-> self,
                   args |-> <<val>>, calls |-> r.calls, result |-> r.result]
    /\ UNCHANGED <<check_leaks, skip_checks, trace_state, scopes, live_tracers>>

\* The caller takes the result of the operation and goes on.
Resume ==
    /\ last # Idle
    /\ last' = Idle
    /\ UNCHANGED <<check_leaks, skip_checks, trace_state, scopes, live_tracers>>

MainThread == "main"

\* One thread of control using every operation.
Next ==
    \/ \E t \in {MainThread} :
        \/ \E trace_type \in TraceTypes, bottom \in BOOLEAN :
               EnterMaster(t, trace_type, bottom)
        \/ EnterSublevel(t)
        \/ \E exc \in BOOLEAN : Exit(t, exc)
        \/ \E master \in ScopeMasters(t) : MakeTracer(t, master)
        \/ \E x \in live_tracers[t] : DropTracer(t, x)
        \/ \E args \in SeqsUpTo(Operands(t), MaxArgs) : Bind(t, add_p, args)
        \/ \E self \in Targets(t), val \in Operands(t) : FullRaise(t, self, val)
    \/ Resume

Spec == Init /\ [][Next]_vars

\* Two threads of control entering and leaving scopes concurrently.
NextThreads ==
    \/ \E t \in Threads :
        \/ \E trace_type \in TraceTypes, bottom \in BOOLEAN :
               EnterMaster(t, trace_type, bottom)
        \/ EnterSublevel(t)
        \/ \E exc \in BOOLEAN : Exit(t, exc)
    \/ Resume

SpecThreads == Init /\ [][NextThreads]_vars

\* The module with the leak check switched on (check_leaks = True).
InitLeaks ==
    /\ check_leaks = TRUE
    /\ skip_checks = TRUE
    /\ trace_state = [k \in Threads |-> TraceState]
    /\ scopes = [t \in Threads |-> <<>>]
    /\ live_tracers = [t \in Threads |-> {}]
    /\ last = Idle

\* One thread of control entering and leaving scopes, building and dropping
\* tracers, and keeping or not what the scopes gave it.
NextLeaks ==
    \/ \E t \in {MainThread} :
        \/ \E trace_type \in TraceTypes, bottom \in BOOLEAN :
               EnterMaster(t, trace_type, bottom)
        \/ EnterSublevel(t)
        \/ \E exc \in BOOLEAN, held \in BOOLEAN : Leave(t, exc, held)
        \/ \E master \in ScopeMasters(t) : MakeTracer(t, master)
        \/ \E x \in live_tracers[t] : DropTracer(t, x)
    \/ Resume

SpecLeaks == InitLeaks /\ [][NextLeaks]_vars

\* Two values are wrapped in Literals, which are hashed and compared.
CompareLiterals(a, b) ==
    /\ last = Idle
    /\ last' = [op |-> "literal", a |-> a, b |-> b,
                hash_a |-> literal__hash__(Literal(a)),
                hash_b |-> literal__hash__(Literal(b)),
                eq |-> literal__eq__(Literal(a), Literal(b)),
                eq_rev |-> literal__eq__(Literal(b), Literal(a))]
    /\ UNCHANGED <<check_leaks, skip_checks, trace_state, scopes, live_tracers>>

\* The values wrapped: numbers, and MaxObjects objects of each of the
\* other types, an object having one identity and one content.
Numbers == {IntVal(n) : n \in 1..MaxObjects}

Lists == {ListVal(i, <<n>>) : i \in 1..MaxObjects, n \in 1..MaxObjects}

Arrs == {ArrVal(MaxObjects + i, n) : i \in 1..MaxObjects, n \in 1..MaxObjects}

Boxes == {BoxVal(2 * MaxObjects + i) : i \in 1..MaxObjects}

Wrapped == Numbers \cup Lists \cup Arrs \cup Boxes \cup {unit}

\* a and b can exist together: an identity belongs to one object.
Coexist(a, b) ==
    ("id" \in DOMAIN a /\ "id" \in DOMAIN b /\ a.id = b.id) => a = b

NextLiteral ==
    \/ /\ last = Idle
       /\ \E a \in Wrapped, b \in Wrapped :
             Coexist(a, b) /\ CompareLiterals(a, b)
    \/ Resume

SpecLiteral == Init /\ [][NextLiteral]_vars

\* find_top_trace(xs) called in thread t
FindTopTrace(t, xs) ==
    /\ last = Idle
    /\ last' = [op |-> "find_top_trace", thread |-> t, args |-> xs,
                sublevel |-> cur_sublevel(t),
                result |-> Return(find_top_trace(xs, cur_sublevel(t)))]
    /\ UNCHANGED <<check_leaks, skip_checks, trace_state, scopes, live_tracers>>

\* Interpreter classes of two transformations.
TopTypes == {"JVPTrace", "BatchTrace"}

\* Tracers the operands of a call can hold: of either class, of activations
\* of two levels, two activations to a level, made at either sublevel.
TopTracers ==
    {Tracer(Trace(trace_type, MasterTrace(id, level, trace_type),
                  Sublevel(val, val)), "new") :
        trace_type \in TopTypes, id \in 1..MaxObjects, level \in 0..1,
        val \in 0..1}

NextTop ==
    \/ EnterSublevel(MainThread)
    \/ \E exc \in BOOLEAN : Exit(MainThread, exc)
    \/ /\ last = Idle
       /\ \E xs \in SeqsUpTo(TopTracers \cup {unit}, MaxArgs) :
             FindTopTrace(MainThread, xs)
    \/ Resume

SpecTop == Init /\ [][NextTop]_vars

\* One thread entering and leaving activations of two interpreter classes,
\* building tracers and raising them.
NextRaise ==
    \/ \E trace_type \in TopTypes, bottom \in BOOLEAN :
           EnterMaster(MainThread, trace_type, bottom)
    \/ EnterSublevel(MainThread)
    \/ \E exc \in BOOLEAN : Exit(MainThread, exc)
    \/ \E master \in ScopeMasters(MainThread) : MakeTracer(MainThread, master)
    \/ \E x \in live_tracers[MainThread] : DropTracer(MainThread, x)
    \/ \E self \in Targets(MainThread), val \in Operands(MainThread) :
           FullRaise(MainThread, self, val)
    \/ Resume

SpecRaise == Init /\ [][NextRaise]_vars

\* process_env_traces, step by step.  After the first yield handed over the
\* outputs of the called function the generator is at the test of its
\* `while True` loop.  proviso tells which post_process_call the
\* interpreters have: one that hands back no tracer at or above the level of
\* its interpreter, or one that always hands back such a tracer.
EnvStart(t, level, outs, proviso) ==
    /\ last = Idle
    /\ last' = [op |-> "process_env_traces", thread |-> t, pc |-> "test",
                level |-> level, body |-> outs, outs |-> outs, todo |-> <<>>,
                proviso |-> proviso, processed |-> <<>>, result |-> None]
    /\ UNCHANGED <<check_leaks, skip_checks, trace_state, scopes, live_tracers>>

\* The interpreter the loop builds for the outputs it holds.
EnvTrace(t) ==
    Once([tracers \in {env_tracers(last.outs, last.level)} |->
        Trace(tracers[MaxLevelIndex(tracers)].trace.ttype,
              tracers[MaxLevelIndex(tracers)].trace.master, cur_sublevel(t))])

\* One turn of the loop: the outputs hold a tracer above the call's level;
\* they are raised to the interpreter of the highest and handed to its
\* post_process_call, which hands back response.
EnvRound(t, response) ==
    /\ last.op = "process_env_traces"
    /\ last.thread = t
    /\ last.pc = "test"
    /\ env_tracers(last.outs, last.level) # <<>>
    /\ Len(last.todo) < MaxLoop
    /\ \E trace \in {EnvTrace(t)} :
       \E raised \in {map_full_raise(trace, last.outs)} :
          IF raised.result.kind = "raise"
          THEN last' = [last EXCEPT !.pc = "raised", !.result = raised.result]
          ELSE /\ Len(response) = Len(last.outs)
               /\ last.proviso <=>
                     \A i \in 1..Len(response) : isTracer(response[i]) =>
                         response[i].trace.level < trace.level
               /\ \E post \in {post_process_call(trace, call_p,
                                     raised.result.val, response)} :
                     last' = [last EXCEPT
                         !.outs = post[1],
                         !.todo = append_todo(@, post[2]),
                         !.processed = Append(@, trace)]
    /\ UNCHANGED <<check_leaks, skip_checks, trace_state, scopes, live_tracers>>

\* The loop is left by `break` and the generator yields (outs, todo).
EnvYield(t) ==
    /\ last.op = "process_env_traces"
    /\ last.thread = t
    /\ last.pc = "test"
    /\ env_tracers(last.outs, last.level) = <<>>
    /\ last' = [last EXCEPT !.pc = "done",
                            !.result = Return(<<last.outs, last.todo>>)]
    /\ UNCHANGED <<check_leaks, skip_checks, trace_state, scopes, live_tracers>>

\* The caller takes what the generator yielded or raised.
EnvResume ==
    /\ last.op \in {"process_env_traces", "new_sublevel", "exit"}
    /\ last.op = "process_env_traces" => last.pc \in {"done", "raised"}
    /\ Resume

\* The outputs of a called function: tracers of activations of two levels,
\* two activations to a level, made at the outermost sublevel, and the unit.
LoopOutputs ==
    {Tracer(Trace("JVPTrace", MasterTrace(id, level, "JVPTrace"),
                  Sublevel(0, 0)), "new") :
        id \in 1..MaxObjects, level \in 0..1} \cup {unit}

\* One turn of the loop, whatever the post_process_call hands back.
EnvStep(t) ==
    \E response \in SeqsUpTo(LoopOutputs, MaxOuts) : EnvRound(t, response)

NextLoop ==
    \/ EnterSublevel(MainThread)
    \/ \E exc \in BOOLEAN : Exit(MainThread, exc)
    \/ /\ last = Idle
       /\ \E level \in {-1, 0}, outs \in SeqsUpTo(LoopOutputs, MaxOuts),
             proviso \in BOOLEAN :
               EnvStart(MainThread, level, outs, proviso)
    \/ EnvStep(MainThread)
    \/ EnvYield(MainThread)
    \/ EnvResume

\* The generator, once resumed, runs: a turn of the loop that can be taken
\* is taken, and so is the yield.
SpecLoop ==
    /\ Init
    /\ [][NextLoop]_vars
    /\ WF_vars(EnvStep(MainThread))
    /\ WF_vars(EnvYield(MainThread))

\* ------------------------------------------------------- random.randint
\* The integer arithmetic of _randint on machine words.  Every width of
\* random.py is divided by 8 to keep the words enumerable: the dtypes of 32
\* and 64 bits are those of 4 and 8 bits here, and 2**16 is 2**2.
RECURSIVE Pow2(_)
Pow2(n) == IF n = 0 THEN 1 ELSE 2 * Pow2(n - 1)

\* onp.iinfo(dtype).bits of the integer dtypes randint accepts
IntBits == {4, 8}

\* A value brought into the unsigned dtype of nbits bits.
to_unsigned(x, nbits) == x % Pow2(nbits)

\* A value brought into the signed dtype of nbits bits (two's complement).
to_signed(x, nbits) ==
    ((x + Pow2(nbits - 1)) % Pow2(nbits)) - Pow2(nbits - 1)

\* What lax.rem(x, 0) gives on unsigned words: the backend's choice.
RemByZero == {"dividend", "zero"}

\* lax.rem on unsigned words
lax_rem(x, y, by_zero) ==
    IF y = 0 THEN (IF by_zero = "dividend" THEN x ELSE 0) ELSE x % y

\* lax.mul on unsigned words of nbits bits
lax_mul(x, y, nbits) == to_unsigned(x * y, nbits)

\* lax.add on unsigned words of nbits bits
lax_add(x, y, nbits) == to_unsigned(x + y, nbits)

\* lax.max on signed words
lax_max(x, y) == IF x >= y THEN x ELSE y

\* _randint: the multiplier, `2**16 % span` squared once, and once more for
\* the wide dtype, each square reduced by span
multiplier(span, nbits, by_zero) ==
    Once([m1 \in {lax_rem(Pow2(2), span, by_zero)} |->
      Once([m2 \in {lax_rem(lax_mul(m1, m1, nbits), span, by_zero)} |->
        IF nbits = 8
        THEN lax_rem(lax_mul(m2, m2, nbits), span, by_zero)
        ELSE m2])])

\* _randint for one element: higher_bits and lower_bits are the two words
\* of random bits drawn for it
randint(higher_bits, lower_bits, minval, maxval, nbits, by_zero) ==
    Once([max1 \in {lax_max(to_signed(minval + 1, nbits), maxval)} |->
      Once([span \in {to_unsigned(to_signed(max1 - minval, nbits), nbits)} |->
        Once([random_offset \in
                {lax_add(lax_mul(lax_rem(higher_bits, span, by_zero),
                                 multiplier(span, nbits, by_zero), nbits),
                         lax_rem(lower_bits, span, by_zero), nbits)} |->
          to_signed(minval + to_signed(lax_rem(random_offset, span, by_zero),
                                       nbits), nbits)])])])

\* randint(key, (), minval, maxval, dtype), the key giving the two words
Randint(higher_bits, lower_bits, minval, maxval, nbits, by_zero) ==
    /\ last = Idle
    /\ last' = [op |-> "randint", nbits |-> nbits,
                higher_bits |-> higher_bits, lower_bits |-> lower_bits,
                minval |-> minval, maxval |-> maxval,
                result |-> Return(randint(higher_bits, lower_bits, minval,
                                          maxval, nbits, by_zero))]
    /\ UNCHANGED <<check_leaks, skip_checks, trace_state, scopes, live_tracers>>

\* The multiplier _randint computes for a span.
Multiplier(span, nbits) ==
    /\ last = Idle
    /\ last' = [op |-> "multiplier", nbits |-> nbits, span |-> span,
                result |-> Return(multiplier(span, nbits, "zero"))]
    /\ UNCHANGED <<check_leaks, skip_checks, trace_state, scopes, live_tracers>>

\* The words of nbits bits, and the values of the signed dtype.
Words(nbits) == 0..(Pow2(nbits) - 1)

Ints(nbits) == (-Pow2(nbits - 1))..(Pow2(nbits) - 1 - Pow2(nbits - 1))

\* Of the wide dtype, the words and the values at the ends and in the
\* middle of their ranges.
WideWords == {0, 1, 15, 16, 17, 127, 128, 254, 255}

WideInts == {-128, -127, -1, 0, 1, 16, 17, 126, 127}

NextRandom ==
    \/ /\ last = Idle
       /\ \E higher_bits \in Words(4), lower_bits \in Words(4),
             minval \in Ints(4), maxval \in Ints(4), by_zero \in RemByZero :
               Randint(higher_bits, lower_bits, minval, maxval, 4, by_zero)
    \/ /\ last = Idle
       /\ \E higher_bits \in WideWords, lower_bits \in WideWords,
             minval \in WideInts, maxval \in WideInts, by_zero \in RemByZero :
               Randint(higher_bits, lower_bits, minval, maxval, 8, by_zero)
    \/ /\ last = Idle
       /\ \E nbits \in IntBits : \E span \in 1..(Pow2(nbits) - 1) :
               Multiplier(span, nbits)
    \/ Resume

SpecRandom == Init /\ [][NextRandom]_vars

\* call_bind(call_p, f, *args) called in thread t, f returning body
CallBind(t, body, args, responses) ==
    /\ last = Idle
    /\ \E r \in {call_bind(trace_state[StateOf(t)], call_p, Returning(body),
                            args, responses)} :
          /\ r.result.kind # "unfinished"
          /\ Len(responses) =
                Len(SelectSeq(r.calls, LAMBDA c : c.fn = "post_process_call"))
          /\ last' = [op |-> "call_bind", thread |-> t, primitive |-> call_p,
                      args |-> args, body |-> body, responses |-> responses,
                      level |-> r.level,
                      entry |-> trace_state[StateOf(t)].substack,
                      during |-> r.entered,
                      yielded |-> r.yielded, calls |-> r.calls,
                      result |-> r.result]
          \* `with new_sublevel():` pops in its finally clause what it pushed
          /\ trace_state' = [trace_state EXCEPT ![StateOf(t)].substack =
                 IF r.entered = @ THEN @ ELSE Front(r.entered)]
    /\ UNCHANGED <<check_leaks, skip_checks, scopes, live_tracers>>

\* What a function called in thread t can return, and what a
\* post_process_call can hand back.
Outputs(t) == live_tracers[t] \cup {unit}

\* call_bind: the level of a call made in thread t with operands args
CallLevel(t, args) ==
    call_level(find_top_trace(args, cur_sublevel(t)),
               trace_state[StateOf(t)].trace_stack)

\* The answers the post_process_call invocations of a call can give, at most
\* n of them: one for each time round the loop of process_env_traces, which
\* goes round as long as the outputs hold a tracer above the call's level.
RECURSIVE Responses(_, _, _, _)
Responses(t, level, outs, n) ==
    IF n = 0 \/ env_tracers(outs, level) = <<>> THEN {<<>>}
    ELSE {<<>>} \cup
         UNION {{<<r>> \o rest : rest \in Responses(t, level, r, n - 1)} :
                  r \in [1..Len(outs) -> Outputs(t)]}

\* One thread of control making calls inside its scopes.
NextCall ==
    \/ \E t \in {MainThread} :
        \/ \E trace_type \in TraceTypes, bottom \in BOOLEAN :
               EnterMaster(t, trace_type, bottom)
        \/ EnterSublevel(t)
        \/ \E exc \in BOOLEAN : Exit(t, exc)
        \/ \E master \in ScopeMasters(t) : MakeTracer(t, master)
        \/ /\ last = Idle
           /\ \E n \in 0..MaxOuts, args \in SeqsUpTo(Outputs(t), 1) :
                \E body \in [1..n -> Outputs(t)] :
                  \E responses \in
                        Responses(t, CallLevel(t, args), body, MaxRounds) :
                     CallBind(t, body, args, responses)
    \/ Resume

SpecCall == Init /\ [][NextCall]_vars

\* check_jaxpr(jaxpr)
CheckJaxpr(jaxpr) ==
    /\ last = Idle
    /\ \E st \in {check_jaxpr(jaxpr)} :
          last' = [op |-> "check_jaxpr", jaxpr |-> jaxpr, calls |-> st.calls,
                   result |-> IF st.error = None THEN Return(None)
                              ELSE st.error]
    /\ UNCHANGED <<check_leaks, skip_checks, trace_state, scopes, live_tracers>>

\* eval_jaxpr(jaxpr, consts, freevar_vals, *args) called in thread t, the
\* post_process_calls of the run handing back responses
EvalJaxpr(t, jaxpr, consts, freevar_vals, args, responses) ==
    /\ last = Idle
    /\ \E r \in {eval_jaxpr(trace_state[StateOf(t)], jaxpr, consts,
                             freevar_vals, args, responses)} :
          /\ r.result.kind # "unfinished"
          /\ left_over(responses, r.calls) = <<>>
          /\ last' = [op |-> "eval_jaxpr", thread |-> t, jaxpr |-> jaxpr,
                      consts |-> consts, freevar_vals |-> freevar_vals,
                      args |-> args, responses |-> responses,
                      calls |-> r.calls, envs |-> r.envs,
                      result |-> r.result]
    /\ UNCHANGED <<check_leaks, skip_checks, trace_state, scopes, live_tracers>>

\* The graphs handed to check_jaxpr and eval_jaxpr: at most MaxEqns
\* equations over four variables and a literal, with at most one level of
\* bound sub-programs.
VarA == Var("a")

VarB == Var("b")

VarC == Var("c")

VarD == Var("d")

Lit7 == Literal(IntVal(7))

AddEqns ==
    {JaxprEqn(invars, outvars, add_p, <<>>) :
        invars \in {<<VarA, VarB>>, <<VarC, Lit7>>},
        outvars \in {<<VarC>>, <<VarC, VarD>>}}

SwapEqns ==
    {JaxprEqn(<<VarA, VarB>>, outvars, swap_p, <<>>) :
        outvars \in {<<VarC, VarD>>, <<VarD>>}}

SubJaxprs ==
    {Jaxpr(constvars, freevars, <<>>, <<VarA>>, <<>>) :
        constvars \in {<<>>, <<VarA>>}, freevars \in {<<>>, <<VarB>>}}

\* The const and free-variable bindings given to a sub-program.
BindingLists == {<<<<VarC>>, <<>>>>, <<<<VarD>>, <<VarB>>>>}

CallEqns ==
    {JaxprEqn(<<>>, <<VarD>>, call_p,
              <<<<subjaxpr, bindings[1], bindings[2]>>>>) :
        subjaxpr \in SubJaxprs, bindings \in BindingLists}

Eqns == AddEqns \cup SwapEqns \cup CallEqns

Jaxprs ==
    {Jaxpr(constvars, freevars, invars, outvars, eqns) :
        constvars \in {<<>>, <<VarA>>},
        freevars \in {<<>>, <<VarB>>},
        invars \in {<<>>, <<VarA>>, <<VarA, VarB>>},
        outvars \in {<<VarC>>, <<VarD>>, <<Lit7, VarA>>, <<VarC, VarD>>},
        eqns \in SeqsUpTo(Eqns, MaxEqns)}

\* The numbers passed as arguments.
ArgValues == {IntVal(2), IntVal(3)}

\* Graphs being validated.
NextCheck ==
    \/ /\ last = Idle
       /\ \E jaxpr \in Jaxprs : CheckJaxpr(jaxpr)
    \/ Resume

SpecCheck == Init /\ [][NextCheck]_vars

\* Graphs being executed, with one value for each declared constant, free
\* variable and input; no value is a tracer, so that no post_process_call
\* is made.
NextEval ==
    \/ /\ last = Idle
       /\ \E jaxpr \in Jaxprs :
            \E args \in [1..Len(jaxpr.invars) -> ArgValues] :
               EvalJaxpr(MainThread, jaxpr,
                         [i \in 1..Len(jaxpr.constvars) |-> IntVal(5)],
                         [i \in 1..Len(jaxpr.freevars) |-> IntVal(6)], args,
                         <<>>)
    \/ Resume

SpecEval == Init /\ [][NextEval]_vars

\* TypedJaxpr(jaxpr, literals, in_avals, out_avals)
MakeTypedJaxpr(jaxpr, literals, in_avals, out_avals) ==
    /\ last = Idle
    /\ last' = [op |-> "TypedJaxpr", jaxpr |-> jaxpr, literals |-> literals,
                in_avals |-> in_avals, out_avals |-> out_avals,
                result |-> TypedJaxpr(jaxpr, literals, in_avals, out_avals)]
    /\ UNCHANGED <<check_leaks, skip_checks, trace_state, scopes, live_tracers>>

\* full_lower(val), and full_lower of what it returned
FullLower(val) ==
    /\ last = Idle
    /\ last' = [op |-> "full_lower", args |-> <<val>>,
                result |-> Return(full_lower(val)),
                again |-> Return(full_lower(full_lower(val)))]
    /\ UNCHANGED <<check_leaks, skip_checks, trace_state, scopes, live_tracers>>

\* lattice_join(x, y)
LatticeJoin(x, y) ==
    /\ last = Idle
    /\ last' = [op |-> "lattice_join", args |-> <<x, y>>,
                result |-> lattice_join(x, y)]
    /\ UNCHANGED <<check_leaks, skip_checks, trace_state, scopes, live_tracers>>

\* The graphs given to TypedJaxpr, and something that is no graph.
TypedJaxprs ==
    {Jaxpr(constvars, freevars, invars, outvars, <<>>) :
        constvars \in {<<>>, <<VarA>>},
        freevars \in {<<>>, <<VarB>>},
        invars \in {<<>>, <<VarC>>},
        outvars \in {<<VarC>>, <<VarC, VarD>>}}
      \cup {None}

\* The abstract values there are: bot, abstract_unit and the provider's.
Avals ==
    {bot, abstract_unit}
        \cup {ShapedArray(n) : n \in 1..MaxAvals}
        \cup {ConcreteArray(n, v) : n \in 1..MaxAvals, v \in 1..MaxAvals}

\* The values full_lower is given: values that are no tracers, tracers that
\* lower to themselves, and tracers that give up what they wrap, nested
\* MaxAvals deep at most.
RECURSIVE Lowerables(_)
Lowerables(depth) ==
    IF depth = 0
    THEN {unit, opaque, IntVal(1),
          Tracer(Trace("JVPTrace", MasterTrace(1, 0, "JVPTrace"),
                       Sublevel(0, 0)), "new")}
    ELSE Lowerables(depth - 1) \cup
         {LoweringTracer(Trace("JVPTrace", MasterTrace(1, depth, "JVPTrace"),
                               Sublevel(0, 0)), v) :
             v \in Lowerables(depth - 1)}

NextValues ==
    \/ /\ last = Idle
       /\ \E jaxpr \in TypedJaxprs,
             literals \in SeqsUpTo({IntVal(1)}, MaxAvals),
             in_avals \in SeqsUpTo({abstract_unit, opaque}, MaxAvals),
             out_avals \in SeqsUpTo({abstract_unit, opaque}, MaxAvals) :
               MakeTypedJaxpr(jaxpr, literals, in_avals, out_avals)
    \/ /\ last = Idle
       /\ \E val \in Lowerables(MaxAvals) : FullLower(val)
    \/ /\ last = Idle
       /\ \E x \in Avals \cup {None}, y \in Avals \cup {None} : LatticeJoin(x, y)
    \/ Resume

SpecValues == Init /\ [][NextValues]_vars

\* ------------------------------------------------------------- properties
\* The tracer operands of the latest operation.
TracerArgs ==
    {last.args[i] : i \in {j \in 1..Len(last.args) : isTracer(last.args[j])}}

\* The calls of the latest operation to the interpreter method fn.
CallsTo(fn) == SelectSeq(last.calls, LAMBDA c : c.fn = fn)

\* The activations on the stack of the thread of the latest operation.
ActiveMasters == Masters(StateOf(last.thread))

\* Tracer x has not outlived a scope it was built in: its activation and its
\* sublevel are still on the stacks of thread t.
InScope(t, x) ==
    /\ x.trace.master \in Masters(StateOf(t))
    /\ x.trace.sublevel \in Range(trace_state[StateOf(t)].substack)

\* C1: when the tracer operands of a bind belong to two nested activations
\* A and B with A of the lower level (the tracers still being in scope),
\* process_primitive is invoked once, on an interpreter of B's master and
\* never of A's, whatever the order of the operands and however many
\* concrete operands accompany them.
C1_TopLevelInterpreterProcesses ==
    last.op = "bind" =>
        \A A \in ActiveMasters, B \in ActiveMasters :
            ( /\ A.level < B.level
              /\ \A x \in TracerArgs :
                    x.trace.master \in {A, B} /\ InScope(last.thread, x)
              /\ \E x \in TracerArgs : x.trace.master = A
              /\ \E x \in TracerArgs : x.trace.master = B )
            => /\ Len(CallsTo("process_primitive")) = 1
               /\ \A i \in 1..Len(last.calls) :
                     last.calls[i].fn = "process_primitive" =>
                         /\ last.calls[i].self.master = B
                         /\ last.calls[i].self.master # A
               /\ last.result.kind = "return"

\* C1 witness: a bind of (tracer of B, concrete value, tracer of A), the
\* higher activation's tracer first, dispatched to B.
C1_Witness ==
    /\ last.op = "bind"
    /\ Len(last.args) = 3
    /\ isTracer(last.args[1]) /\ ~isTracer(last.args[2]) /\ isTracer(last.args[3])
    /\ last.args[3].trace.level < last.args[1].trace.level
    /\ InScope(last.thread, last.args[1]) /\ InScope(last.thread, last.args[3])
    /\ Len(CallsTo("process_primitive")) = 1
    /\ CallsTo("process_primitive")[1].self.master = last.args[1].trace.master

\* The operands of the latest bind hold a tracer, and all their tracers are
\* in scope and owned by the activation m.
TracedOnlyBy(m) ==
    /\ TracerArgs # {}
    /\ \A x \in TracerArgs : x.trace.master = m /\ InScope(last.thread, x)

\* C2 as stated: with an outer activation at level 0 and an inner one at
\* level 1, a bind on a value traced only by the outer activation lifts the
\* value to level 1 and invokes the inner interpreter's process_primitive.
C2_OuterValueRaisedToInner ==
    last.op = "bind" =>
        \A outer \in ActiveMasters, inner \in ActiveMasters :
            (outer.level = 0 /\ inner.level = 1 /\ TracedOnlyBy(outer))
            => /\ \A x \in TracerArgs :
                     \E i \in 1..Len(last.calls) :
                         /\ last.calls[i].fn = "lift"
                         /\ last.calls[i].self.master = inner
                         /\ last.calls[i].args = <<x>>
               /\ Len(CallsTo("process_primitive")) = 1
               /\ CallsTo("process_primitive")[1].self.master = inner

\* C2 amended: with an outer activation at level 0 and an inner one at
\* level 1, a bind whose operands hold in-scope tracers of both lifts every
\* tracer of the outer activation onto an interpreter of the inner one
\* before process_primitive is invoked, and that invocation is the inner
\* interpreter's; a bind whose only tracers are the outer activation's calls
\* no lift and invokes the outer interpreter's process_primitive.
C2_Amended ==
    last.op = "bind" =>
        \A outer \in ActiveMasters, inner \in ActiveMasters :
            (outer.level = 0 /\ inner.level = 1)
            => /\ ( /\ \A x \in TracerArgs :
                          x.trace.master \in {outer, inner}
                              /\ InScope(last.thread, x)
                    /\ \E x \in TracerArgs : x.trace.master = outer
                    /\ \E x \in TracerArgs : x.trace.master = inner )
                  => /\ \A x \in TracerArgs : x.trace.master = outer =>
                           \E i \in 1..(Len(last.calls) - 1) :
                               /\ last.calls[i].fn = "lift"
                               /\ last.calls[i].self.master = inner
                               /\ last.calls[i].self.level = 1
                               /\ last.calls[i].args = <<x>>
                     /\ Len(CallsTo("process_primitive")) = 1
                     /\ Last(last.calls).fn = "process_primitive"
                     /\ Last(last.calls).self.master = inner
               /\ TracedOnlyBy(outer)
                  => /\ CallsTo("lift") = <<>>
                     /\ Len(CallsTo("process_primitive")) = 1
                     /\ Last(last.calls).fn = "process_primitive"
                     /\ Last(last.calls).self.master = outer

\* C2 witness: inside the inner scope, a bind of an outer tracer and an
\* inner tracer that lifted the outer one and went to the inner interpreter.
C2_Witness ==
    /\ last.op = "bind"
    /\ \E outer \in ActiveMasters, inner \in ActiveMasters :
          /\ outer.level = 0 /\ inner.level = 1
          /\ \E x \in TracerArgs : x.trace.master = outer
          /\ \E x \in TracerArgs : x.trace.master = inner
          /\ \A x \in TracerArgs : InScope(last.thread, x)
          /\ CallsTo("lift") # <<>>
          /\ Last(last.calls).fn = "process_primitive"
          /\ Last(last.calls).self.master = inner

\* C3: full_raise of a tracer of the target's own activation returns the
\* tracer itself when the sublevels are equal, the result of sublift when
\* the tracer's is older, and raises when it is newer; a value that is no
\* tracer is wrapped by pure.
C3_SameActivation ==
    last.op = "full_raise" =>
        LET self == last.self
            val == last.args[1]
        IN /\ ~isTracer(val) =>
                 /\ Len(last.calls) = 1
                 /\ last.calls[1] = [fn |-> "pure", self |-> self, args |-> <<val>>]
                 /\ last.result.kind = "return"
                 /\ last.result.val.via = "pure"
                 /\ last.result.val.trace = self
           /\ (isTracer(val) /\ val.trace.master = self.master) =>
                 /\ val.trace.sublevel.val = self.sublevel.val =>
                       last.calls = <<>> /\ last.result = [kind |-> "return", val |-> val]
                 /\ val.trace.sublevel.val < self.sublevel.val =>
                       /\ Len(last.calls) = 1
                       /\ last.calls[1] =
                              [fn |-> "sublift", self |-> self, args |-> <<val>>]
                       /\ last.result.kind = "return"
                       /\ last.result.val.via = "sublift"
                       /\ last.result.val.trace = self
                 /\ val.trace.sublevel.val > self.sublevel.val =>
                       last.calls = <<>> /\ last.result.kind = "raise"

\* C3 witness: full_raise met a tracer of its own activation with a newer
\* sublevel, and raised.
C3_Witness ==
    /\ last.op = "full_raise"
    /\ isTracer(last.args[1])
    /\ last.args[1].trace.master = last.self.master
    /\ last.args[1].trace.sublevel.val > last.self.sublevel.val
    /\ last.result.kind = "raise"

\* C4: full_raise of a tracer of an activation of strictly lower level
\* returns the result of lift when the tracer's sublevel does not exceed the
\* target's, and raises without calling lift when it does.
C4_LowerLevel ==
    last.op = "full_raise" =>
        LET self == last.self
            val == last.args[1]
        IN (isTracer(val) /\ val.trace.level < self.level) =>
              /\ val.trace.sublevel.val <= self.sublevel.val =>
                    /\ Len(last.calls) = 1
                    /\ last.calls[1] = [fn |-> "lift", self |-> self, args |-> <<val>>]
                    /\ last.result.kind = "return"
                    /\ last.result.val.via = "lift"
                    /\ last.result.val.trace = self
              /\ val.trace.sublevel.val > self.sublevel.val =>
                    last.calls = <<>> /\ last.result.kind = "raise"

\* C4 witness: a tracer of a lower level whose sublevel exceeds the target's
\* was refused.
C4_Witness ==
    /\ last.op = "full_raise"
    /\ isTracer(last.args[1])
    /\ last.args[1].trace.level < last.self.level
    /\ last.args[1].trace.sublevel.val > last.self.sublevel.val
    /\ last.result.kind = "raise"

\* C5: full_raise of a tracer of an activation of strictly higher level, or
\* of another activation of the target's level, raises: it calls none of
\* pure, lift and sublift and returns nothing.
C5_CannotReconcile ==
    last.op = "full_raise" =>
        LET self == last.self
            val == last.args[1]
        IN ( /\ isTracer(val)
             /\ \/ val.trace.level > self.level
                \/ val.trace.level = self.level /\ val.trace.master # self.master )
           => last.calls = <<>> /\ last.result.kind = "raise"

\* C5 witness: the tracer of an activation that was left met an interpreter
\* of the activation that took its level.
C5_Witness ==
    /\ last.op = "full_raise"
    /\ isTracer(last.args[1])
    /\ last.args[1].trace.level = last.self.level
    /\ last.args[1].trace.master # last.self.master
    /\ last.self.master \in ActiveMasters
    /\ last.result.kind = "raise"

\* The masters of the new_master scopes thread t is inside that were
\* inserted at the bottom (bottom) or at the top, outermost first.
OwnMasters(t, bottom) ==
    LET own == SelectSeq(scopes[t],
                   LAMBDA f : f.kind = "new_master" /\ f.bottom = bottom)
    IN [i \in 1..Len(own) |-> own[i].master]

\* The new_sublevel scopes thread t is inside, outermost first.
OwnSublevels(t) == SelectSeq(scopes[t], LAMBDA f : f.kind = "new_sublevel")

\* C6: for properly nested new_master scopes, with top or bottom insertion,
\* the activation a scope created is on the trace stack as long as the scope
\* lasts, and when the scope is left, normally or by an exception, the
\* activation is gone and the upward and downward stacks are what they were
\* at entry.
C6_MasterScoped ==
    /\ \A t \in Threads : \A i \in 1..Len(scopes[t]) :
          scopes[t][i].kind = "new_master" =>
              LET stack == trace_state[StateOf(t)].trace_stack
              IN scopes[t][i].master \in
                     Range(IF scopes[t][i].bottom
                           THEN stack.downward ELSE stack.upward)
    /\ (last.op = "exit" /\ last.frame.kind = "new_master") =>
          /\ trace_state[StateOf(last.thread)].trace_stack
                 = last.frame.entry.trace_stack
          /\ last.frame.master \notin ActiveMasters

\* C6 witness: a scope of a bottom-inserted activation, nested in another
\* scope, was left by an exception.
C6_Witness ==
    /\ last.op = "exit"
    /\ last.exc
    /\ last.frame.kind = "new_master"
    /\ last.frame.bottom
    /\ scopes[last.thread] # <<>>
    /\ last.result.kind = "raise"

\* C7: for properly nested new_sublevel scopes, inside a scope cur_sublevel()
\* is one greater than just before entry; when the scope is left, normally or
\* by an exception, the sublevel stack is what it was at entry; and the
\* sublevel stack is never empty and its i-th entry (from 0) is i.
C7_SublevelScoped ==
    /\ \A t \in Threads :
          LET substack == trace_state[StateOf(t)].substack
              own == OwnSublevels(t)
          IN /\ substack # <<>>
             /\ \A i \in 1..Len(substack) : substack[i].val = i - 1
             /\ own # <<>> =>
                   /\ cur_sublevel(t) = Last(own).sublevel
                   /\ cur_sublevel(t).val = Last(Last(own).entry.substack).val + 1
    /\ (last.op = "exit" /\ last.frame.kind = "new_sublevel") =>
          trace_state[StateOf(last.thread)].substack = last.frame.entry.substack

\* C7 witness: the inner of two nested new_sublevel scopes was left by an
\* exception.
C7_Witness ==
    /\ last.op = "exit"
    /\ last.exc
    /\ last.frame.kind = "new_sublevel"
    /\ last.frame.sublevel.val = 2
    /\ cur_sublevel(last.thread).val = 1

\* C8: each thread has stacks of its own: in every interleaving of the
\* scope entries and exits of two threads, the trace stack and the sublevel
\* stack a thread sees hold exactly the activations and sublevels of the
\* scopes that thread itself is inside, so the level of a new activation and
\* cur_sublevel() follow from the thread's own entries and exits alone.
C8_ThreadLocalStacks ==
    \A t \in Threads :
        LET state == trace_state[StateOf(t)]
        IN /\ state.trace_stack.upward = OwnMasters(t, FALSE)
           /\ state.trace_stack.downward = OwnMasters(t, TRUE)
           /\ \A i \in 1..Len(OwnMasters(t, FALSE)) :
                 OwnMasters(t, FALSE)[i].level = i - 1
           /\ \A i \in 1..Len(OwnMasters(t, TRUE)) :
                 OwnMasters(t, TRUE)[i].level = -i
           /\ Len(state.substack) = Len(OwnSublevels(t)) + 1
           /\ cur_sublevel(t).val = Len(OwnSublevels(t))

\* C8 witness: while one thread is inside an activation of level 0 and a
\* sublevel, the other thread enters an activation and gets level 0 too,
\* at sublevel 0.
C8_Witness ==
    /\ last.op = "new_master"
    /\ last.thread = "worker"
    /\ last.result.val.level = 0
    /\ Len(OwnMasters("main", FALSE)) = 1
    /\ cur_sublevel("main").val = 1
    /\ cur_sublevel("worker").val = 0

\* C9: a bind none of whose operands is a tracer calls the primitive's impl
\* on the operands as they are and returns its result; it calls no pure,
\* lift, sublift or process_primitive, whatever is on the trace stack.
C9_NoTracerCallsImpl ==
    (last.op = "bind" /\ TracerArgs = {}) =>
        /\ last.calls =
               <<[fn |-> "impl", self |-> last.primitive, args |-> last.args]>>
        /\ last.result = [kind |-> "return", val |-> unit]

\* C9 witness: a bind of two concrete operands inside two nested activations
\* went to impl.
C9_Witness ==
    /\ last.op = "bind"
    /\ Len(last.args) = 2
    /\ TracerArgs = {}
    /\ Len(trace_state[StateOf(last.thread)].trace_stack.upward) = 2
    /\ Len(CallsTo("impl")) = 1

\* C10: a bind with an operand that is neither a tracer nor of a type
\* registered in pytype_aval_mappings fails with a type error, and neither
\* impl nor process_primitive is invoked.
C10_InvalidOperandRejected ==
    ( /\ last.op = "bind"
      /\ \E i \in 1..Len(last.args) :
            ~isTracer(last.args[i]) /\ ~valid_jaxtype(last.args[i]) )
    => /\ last.result.kind = "raise"
       /\ last.result.exc = "TypeError"
       /\ CallsTo("impl") = <<>>
       /\ CallsTo("process_primitive") = <<>>

\* The outputs process_env_traces looked at, one list for each time it
\* tested its loop condition: those of the called function, then what each
\* post_process_call handed back.
Rounds == <<last.body>> \o last.responses

\* Every post_process_call of the latest call handed back outputs with no
\* tracer at or above the level of its interpreter.
WellBehaved ==
    LET reconciled == CallsTo("post_process_call")
    IN \A r \in 1..Len(reconciled) : \A i \in 1..Len(last.responses[r]) :
          isTracer(last.responses[r][i]) =>
              last.responses[r][i].trace.level < reconciled[r].self.level

\* C11: when process_env_traces yields its final results for a call of
\* level L, no output is a tracer of a level above L; and every tracer above
\* L that the outputs held at some turn of the loop was raised to the
\* interpreter of the highest level present (its own, when it is of that
\* level) and passed to that interpreter's post_process_call.
C11_NoTracerAboveCallLevel ==
    (last.op = "call_bind" /\ last.yielded # None) =>
        LET outs == last.yielded.val[1]
            reconciled == CallsTo("post_process_call")
        IN /\ \A i \in 1..Len(outs) :
                 ~(isTracer(outs[i]) /\ outs[i].trace.level > last.level)
           /\ outs = Last(Rounds)
           /\ Len(Rounds) = Len(reconciled) + 1
           /\ \A r \in 1..Len(reconciled) :
                 /\ reconciled[r].self.level > last.level
                 /\ Len(reconciled[r].args) = Len(Rounds[r])
                 /\ \A i \in 1..Len(Rounds[r]) :
                       LET x == Rounds[r][i]
                           passed == reconciled[r].args[i]
                       IN /\ isTracer(passed)
                          /\ passed.trace.master = reconciled[r].self.master
                          /\ (isTracer(x) /\ x.trace.level > last.level) =>
                                /\ x.trace.level <= reconciled[r].self.level
                                /\ x.trace.level = reconciled[r].self.level
                                      => x.trace.master = reconciled[r].self.master

\* C11 witness: a call of level 0 whose function returned a tracer of level
\* 0 and one of level 1; the latter was reconciled and the outputs yielded.
C11_Witness ==
    /\ last.op = "call_bind"
    /\ last.yielded # None
    /\ last.level = 0
    /\ Len(last.body) = 2
    /\ isTracer(last.body[1]) /\ last.body[1].trace.level = 0
    /\ isTracer(last.body[2]) /\ last.body[2].trace.level = 1
    /\ Len(CallsTo("post_process_call")) = 1
    /\ isTracer(last.yielded.val[1][1])

\* C12: process_env_traces collects one finalizer per reconciled
\* interpreter, in the order of reconciliation; and when every
\* post_process_call hands back outputs with no tracer at or above its own
\* level, the levels of the interpreters reconciled in successive turns of
\* the loop are strictly decreasing.
C12_OneTodoPerInterpreter ==
    (last.op = "call_bind" /\ last.yielded # None) =>
        LET todo == last.yielded.val[2]
            reconciled == CallsTo("post_process_call")
        IN /\ Len(todo) = Len(reconciled)
           /\ \A i \in 1..Len(todo) : todo[i] = Todo(reconciled[i].self)
           /\ WellBehaved =>
                 \A i \in 1..(Len(reconciled) - 1) :
                     reconciled[i + 1].self.level < reconciled[i].self.level

\* C12 witness: two interpreters were reconciled, of level 1 and then of
\* level 0, by well-behaved post_process_call rules.
C12_Witness ==
    /\ last.op = "call_bind"
    /\ last.yielded # None
    /\ WellBehaved
    /\ Len(last.yielded.val[2]) = 2
    /\ last.yielded.val[2][1].trace.level = 1
    /\ last.yielded.val[2][2].trace.level = 0

\* C13 as stated: of the finalizers call_bind applies after the call, the one
\* applied last is that of the outermost (lowest) reconciled interpreter.
C13_OutermostAppliedLast ==
    (last.op = "call_bind" /\ last.result.kind = "return"
        /\ CallsTo("todo") # <<>>) =>
        LET applied == CallsTo("todo")
            reconciled == CallsTo("post_process_call")
        IN \A i \in 1..Len(reconciled) :
              Last(applied).self.level <= reconciled[i].self.level

\* C13 amended: call_bind applies every finalizer collected by
\* process_env_traces, once, in the reverse of the order of collection: the
\* one collected last (the outermost reconciled interpreter's) first and the
\* one collected first (the innermost's) last, each on the outputs of the
\* one before.
C13_Amended ==
    (last.op = "call_bind" /\ last.result.kind = "return") =>
        LET applied == CallsTo("todo")
            todo == last.yielded.val[2]
        IN /\ Len(applied) = Len(todo)
           /\ \A i \in 1..Len(applied) :
                 applied[i].self = todo[Len(todo) + 1 - i].trace
           /\ applied # <<>> =>
                 /\ applied[1].self = Last(todo).trace
                 /\ Last(applied).self = todo[1].trace
                 /\ applied[1].args = last.yielded.val[1]
           /\ WellBehaved =>
                 \A i \in 1..(Len(applied) - 1) :
                     applied[i].self.level < applied[i + 1].self.level

\* C13 witness: two finalizers were applied, that of the interpreter of
\* level 0 and then that of the interpreter of level 1.
C13_Witness ==
    /\ last.op = "call_bind"
    /\ last.result.kind = "return"
    /\ Len(CallsTo("todo")) = 2
    /\ CallsTo("todo")[1].self.level = 0
    /\ CallsTo("todo")[2].self.level = 1
    /\ CallsTo("post_process_call")[1].self.level = 1

\* The variables a graph declares: the unit variable, then its constants,
\* free variables and inputs.
Declared(jaxpr) ==
    <<unitvar>> \o jaxpr.constvars \o jaxpr.freevars \o jaxpr.invars

\* The output variables of the first k equations, in order.
RECURSIVE EqnWrites(_, _)
EqnWrites(eqns, k) ==
    IF k = 0 THEN <<>> ELSE EqnWrites(eqns, k - 1) \o eqns[k].outvars

\* Everything written in the scope of a graph before its k-th equation
\* writes its outputs, and everything written in the scope at all.
WritesBefore(jaxpr, k) == Declared(jaxpr) \o EqnWrites(jaxpr.eqns, k - 1)

AllWrites(jaxpr) == Declared(jaxpr) \o EqnWrites(jaxpr.eqns, Len(jaxpr.eqns))

\* The const and free-variable bindings of the sub-programs of an equation.
Bindings(eqn) ==
    UNION {Range(eqn.bound_subjaxprs[i][2]) \cup Range(eqn.bound_subjaxprs[i][3]) :
              i \in 1..Len(eqn.bound_subjaxprs)}

\* Some variable is written a second time in the scope of the graph.
WrittenTwice(jaxpr) ==
    \E i, j \in 1..Len(AllWrites(jaxpr)) :
        i < j /\ AllWrites(jaxpr)[i] = AllWrites(jaxpr)[j]

\* Equation k of the graph reads, as an input or as a binding of a
\* sub-program, a variable that nothing before it has written.
EqnReadsUnwritten(jaxpr, k) ==
    \E v \in Range(jaxpr.eqns[k].invars) \cup Bindings(jaxpr.eqns[k]) :
        ~isLiteral(v) /\ v \notin Range(WritesBefore(jaxpr, k))

\* The outputs of the graph that nothing in it has written.
UnwrittenOutputs(jaxpr) ==
    {i \in 1..Len(jaxpr.outvars) :
        ~isLiteral(jaxpr.outvars[i])
            /\ jaxpr.outvars[i] \notin Range(AllWrites(jaxpr))}

\* The exception that names variable v as not defined, and the one that
\* names it as already bound.
SaysNotDefined(v) ==
    Raise("Exception", [text |-> "Variable '{}' not defined", var |-> v])

SaysAlreadyBound(v) ==
    Raise("Exception", [text |-> "Variable {} already bound", var |-> v])

\* The graph, or a sub-program bound in it, reads a variable before it is
\* written in its scope or writes one twice.
RECURSIVE Defective(_)
Defective(jaxpr) ==
    \/ WrittenTwice(jaxpr)
    \/ \E k \in 1..Len(jaxpr.eqns) : EqnReadsUnwritten(jaxpr, k)
    \/ UnwrittenOutputs(jaxpr) # {}
    \/ \E k \in 1..Len(jaxpr.eqns) :
          \E i \in 1..Len(jaxpr.eqns[k].bound_subjaxprs) :
              Defective(jaxpr.eqns[k].bound_subjaxprs[i][1])

\* C14: check_jaxpr raises exactly when the graph is not well-formed: when,
\* in the walk over constants, free variables, inputs, equations in order
\* and outputs (the unit variable being bound from the start), a variable
\* that is no literal is read before it is written in its scope, or a
\* variable is written twice in its scope, or a bound sub-program has such a
\* defect; and what it raises names a variable as not defined or already
\* bound.
C14_RaisesIffDefective ==
    last.op = "check_jaxpr" =>
        /\ last.result.kind = "raise" <=> Defective(last.jaxpr)
        /\ last.result.kind = "return" <=> ~Defective(last.jaxpr)
        /\ last.result.kind = "raise" =>
              \E v \in {VarA, VarB, VarC, VarD, unitvar} :
                  last.result \in {SaysNotDefined(v), SaysAlreadyBound(v)}

\* C14 witness: a graph whose only defect is in a bound sub-program was
\* rejected.
C14_Witness ==
    /\ last.op = "check_jaxpr"
    /\ last.result.kind = "raise"
    /\ ~WrittenTwice(last.jaxpr)
    /\ UnwrittenOutputs(last.jaxpr) = {}
    /\ \A k \in 1..Len(last.jaxpr.eqns) : ~EqnReadsUnwritten(last.jaxpr, k)
    /\ Len(last.jaxpr.eqns) = 2

\* C15 as stated: every graph whose outputs name a variable that is declared
\* nowhere is rejected with an error that names such a variable as not
\* defined, and check_jaxpr calls no primitive's bind or impl.
C15_UndeclaredOutputNamed ==
    last.op = "check_jaxpr" =>
        /\ last.calls = <<>>
        /\ UnwrittenOutputs(last.jaxpr) # {} =>
              /\ last.result.kind = "raise"
              /\ \E i \in UnwrittenOutputs(last.jaxpr) :
                    last.result = SaysNotDefined(last.jaxpr.outvars[i])

\* C15, amended: a graph whose outputs name a variable that is declared nowhere (no
\* constant, free variable, input or equation output) is rejected by
\* check_jaxpr; when the walk gets as far as the outputs, the error names
\* the first such variable as not defined; and check_jaxpr, whether it
\* accepts or rejects, calls no primitive's bind or impl.
C15_UndeclaredOutputRejected ==
    last.op = "check_jaxpr" =>
        /\ last.calls = <<>>
        /\ UnwrittenOutputs(last.jaxpr) # {} =>
              /\ last.result.kind = "raise"
              /\ last.result.exc = "Exception"
              /\ ( /\ ~WrittenTwice(last.jaxpr)
                   /\ \A k \in 1..Len(last.jaxpr.eqns) :
                         /\ ~EqnReadsUnwritten(last.jaxpr, k)
                         /\ \A i \in 1..Len(last.jaxpr.eqns[k].bound_subjaxprs) :
                               ~Defective(last.jaxpr.eqns[k].bound_subjaxprs[i][1]) )
                 => \E i \in UnwrittenOutputs(last.jaxpr) :
                       /\ \A j \in UnwrittenOutputs(last.jaxpr) : i <= j
                       /\ last.result = SaysNotDefined(last.jaxpr.outvars[i])

\* C15 witness: a graph with an equation and nothing wrong but an output
\* that is declared nowhere was rejected with that variable named.
C15_Witness ==
    /\ last.op = "check_jaxpr"
    /\ Len(last.jaxpr.eqns) = 1
    /\ last.jaxpr.outvars = <<VarC, VarD>>
    /\ UnwrittenOutputs(last.jaxpr) = {2}
    /\ last.result = SaysNotDefined(VarD)

\* C16: for an equation with bound sub-programs, check_jaxpr accepts the
\* graph only if every const and free-variable binding of each sub-program
\* is written in the enclosing scope before the equation's own outputs are,
\* and only if each sub-program is well-formed in a scope of its own, which
\* holds the unit variable and what the sub-program declares and writes and
\* nothing of the enclosing scope; when the walk reaches such an equation
\* with an unbound binding, the error names a binding as not defined.
C16_SubprogramScopes ==
    last.op = "check_jaxpr" =>
        \A k \in 1..Len(last.jaxpr.eqns) :
            LET eqn == last.jaxpr.eqns[k]
                unbound == {v \in Bindings(eqn) :
                               ~isLiteral(v)
                                   /\ v \notin Range(WritesBefore(last.jaxpr, k))}
            IN /\ last.result.kind = "return" =>
                     /\ unbound = {}
                     /\ \A i \in 1..Len(eqn.bound_subjaxprs) :
                           LET sub == eqn.bound_subjaxprs[i][1]
                           IN /\ ~Defective(sub)
                              /\ \A v \in Range(sub.outvars) :
                                    isLiteral(v) \/ v \in Range(AllWrites(sub))
               /\ unbound # {} => last.result.kind = "raise"
               /\ ( /\ unbound # {}
                    /\ ~WrittenTwice(last.jaxpr)
                    /\ \A j \in 1..(k - 1) :
                          /\ ~EqnReadsUnwritten(last.jaxpr, j)
                          /\ \A i \in 1..Len(last.jaxpr.eqns[j].bound_subjaxprs) :
                                ~Defective(last.jaxpr.eqns[j].bound_subjaxprs[i][1])
                    /\ \A v \in Range(eqn.invars) :
                          isLiteral(v) \/ v \in Range(WritesBefore(last.jaxpr, k))
                    /\ Len(eqn.bound_subjaxprs) = 1 )
                  => \E v \in unbound : last.result = SaysNotDefined(v)
               /\ \A i \in 1..Len(eqn.bound_subjaxprs) :
                     LET sub == eqn.bound_subjaxprs[i][1]
                     IN (\E v \in Range(sub.outvars) :
                            /\ ~isLiteral(v)
                            /\ v \notin Range(AllWrites(sub))
                            /\ v \in Range(WritesBefore(last.jaxpr, k)))
                        => last.result.kind = "raise"

\* C16 witness: a sub-program read a variable of the enclosing scope that it
\* does not declare, its bindings being bound, and the graph was rejected.
C16_Witness ==
    /\ last.op = "check_jaxpr"
    /\ last.result = SaysNotDefined(VarA)
    /\ VarA \in Range(last.jaxpr.invars)
    /\ Len(last.jaxpr.eqns) = 2
    /\ Len(last.jaxpr.eqns[2].bound_subjaxprs) = 1
    /\ last.jaxpr.eqns[2].bound_subjaxprs[1][1].constvars = <<>>
    /\ last.jaxpr.eqns[2].bound_subjaxprs[1][2] = <<VarC>>
    /\ VarC \in Range(WritesBefore(last.jaxpr, 2))
    /\ ~WrittenTwice(last.jaxpr)

\* C17: for every graph check_jaxpr accepts, eval_jaxpr run with one value
\* for each declared constant, free variable and input never reads a
\* variable that has no value in its environment, at the top level or in a
\* bound sub-program.
C17_AcceptedNeverReadsUnbound ==
    (last.op = "eval_jaxpr" /\ check_jaxpr(last.jaxpr).error = None) =>
        ~(last.result.kind = "raise" /\ last.result.exc = "KeyError")

\* The graph with inputs [a, b], no constants, the equation c = add a b and
\* outputs [c].
AddGraph ==
    Jaxpr(<<>>, <<>>, <<VarA, VarB>>, <<VarC>>,
          <<JaxprEqn(<<VarA, VarB>>, <<VarC>>, add_p, <<>>)>>)

\* C19: eval_jaxpr gives the i-th argument to the i-th input of the graph
\* and applies the primitive of an equation to the values of its inputs:
\* the graph AddGraph run on (m, n) applies add to (m, n), in this order,
\* and returns the one output m + n; run on (2, 3) it returns exactly 5.
C19_AddExample ==
    (last.op = "eval_jaxpr" /\ last.jaxpr = AddGraph) =>
        /\ last.envs[1][VarA] = last.args[1]
        /\ last.envs[1][VarB] = last.args[2]
        /\ last.calls = <<Call("impl", add_p, last.args)>>
        /\ last.result =
               Return(<<IntVal(last.args[1].val + last.args[2].val)>>)
        /\ last.args = <<IntVal(2), IntVal(3)>> =>
               last.result = Return(<<IntVal(5)>>)

\* C19 witness: AddGraph was run on (2, 3) and returned 5.
C19_Witness ==
    /\ last.op = "eval_jaxpr"
    /\ last.jaxpr = AddGraph
    /\ last.args = <<IntVal(2), IntVal(3)>>
    /\ last.consts = <<>>
    /\ last.result = Return(<<IntVal(5)>>)

\* What reading the references vs gives in the environment env.
ValuesIn(env, vs) ==
    [i \in 1..Len(vs) |-> IF isLiteral(vs[i]) THEN vs[i].val ELSE env[vs[i]]]

\* C20: in eval_jaxpr, for every equation that has executed: the primitive
\* was applied to the values of the inputs, a literal standing for its
\* embedded value whatever the environment holds; the result of a
\* single-result primitive was written to the first output variable and to
\* no other; the i-th result of a multi-result primitive was written to the
\* i-th output variable; and nothing else in the environment changed.  The
\* outputs returned are the values the output references have, in declared
\* order, after the last equation, a literal giving its embedded value.
C20_WritesAndOutputs ==
    (last.op = "eval_jaxpr" /\ last.envs # <<>>) =>
        /\ \A k \in 1..(Len(last.envs) - 1) :
              LET eqn == last.jaxpr.eqns[k]
                  before == last.envs[k]
                  after == last.envs[k + 1]
                  in_vals == ValuesIn(before, eqn.invars)
                  written == IF eqn.primitive.multiple_results
                             THEN Range(eqn.outvars) ELSE {eqn.outvars[1]}
              IN /\ DOMAIN after = DOMAIN before \cup written
                 /\ \A v \in DOMAIN before \ written : after[v] = before[v]
                 /\ last.calls[k].fn = "impl"
                 /\ last.calls[k].self = eqn.primitive
                 /\ eqn.bound_subjaxprs = <<>> =>
                       /\ last.calls[k].args = in_vals
                       /\ \A i \in 1..Len(eqn.invars) :
                             isLiteral(eqn.invars[i]) =>
                                 /\ eqn.invars[i] \notin DOMAIN before
                                 /\ last.calls[k].args[i] = eqn.invars[i].val
                       /\ ~eqn.primitive.multiple_results =>
                             after[eqn.outvars[1]] = impl(eqn.primitive, in_vals)
                       /\ eqn.primitive.multiple_results =>
                             /\ Len(eqn.outvars) = Len(impl(eqn.primitive, in_vals))
                             /\ \A i \in 1..Len(eqn.outvars) :
                                   (\A j \in (i + 1)..Len(eqn.outvars) :
                                        eqn.outvars[j] # eqn.outvars[i])
                                   => after[eqn.outvars[i]] =
                                          impl(eqn.primitive, in_vals)[i]
        /\ last.result.kind = "return" =>
              /\ Len(last.envs) = Len(last.jaxpr.eqns) + 1
              /\ last.result.val = ValuesIn(Last(last.envs), last.jaxpr.outvars)
              /\ Len(last.result.val) = Len(last.jaxpr.outvars)
              /\ \A i \in 1..Len(last.jaxpr.outvars) :
                    isLiteral(last.jaxpr.outvars[i]) =>
                        last.result.val[i] = last.jaxpr.outvars[i].val

\* C20 witness: swap wrote both its results to c and d; add, given the
\* output variables c and d, then read c and a literal and wrote c alone;
\* the outputs [c, d] are the values after both equations.
C20_Witness ==
    /\ last.op = "eval_jaxpr"
    /\ last.args = <<IntVal(2), IntVal(3)>>
    /\ Len(last.jaxpr.eqns) = 2
    /\ last.jaxpr.eqns[1] = JaxprEqn(<<VarA, VarB>>, <<VarC, VarD>>, swap_p, <<>>)
    /\ last.jaxpr.eqns[2] = JaxprEqn(<<VarC, Lit7>>, <<VarC, VarD>>, add_p, <<>>)
    /\ last.jaxpr.outvars = <<VarC, VarD>>
    /\ last.result = Return(<<IntVal(10), IntVal(2)>>)

\* The activation of the scope just left is referred to from outside the
\* scope: by a tracer that is still reachable or by the code around the
\* with-block.
ActivationSurvives ==
    \/ last.held
    \/ \E t \in Threads : \E x \in live_tracers[t] :
          x.trace.master = last.frame.master

\* The activation of the scope just left is on no stack of its thread.
ActivationPopped ==
    /\ last.frame.master \notin
          Range(trace_state[StateOf(last.thread)].trace_stack.upward)
    /\ last.frame.master \notin
          Range(trace_state[StateOf(last.thread)].trace_stack.downward)

\* C21 as stated: with the leak check on, every exit from a new_master scope
\* whose activation is still referred to from outside is flagged with a leak
\* error, every exit after which nothing refers to it is not, and the
\* activation is off the stack in both cases.
C21_LeakFlaggedOnExit ==
    (last.op = "exit" /\ last.frame.kind = "new_master" /\ check_leaks) =>
        /\ ActivationSurvives =>
              last.result = Raise("Exception", "Leaked trace")
        /\ ~ActivationSurvives =>
              last.result # Raise("Exception", "Leaked trace")
        /\ ActivationPopped

\* C21, amended: with the leak check on, an exit from a new_master scope
\* whose body ended normally is flagged with a leak error exactly when the
\* activation is still referred to from outside the scope; an exit by an
\* exception of the body lets that exception through and flags nothing,
\* whatever refers to the activation; in every case the activation is off
\* the stack.
C21_LeakFlaggedOnNormalExit ==
    (last.op = "exit" /\ last.frame.kind = "new_master" /\ check_leaks) =>
        /\ ~last.exc =>
              /\ ActivationSurvives =>
                    last.result = Raise("Exception", "Leaked trace")
              /\ ~ActivationSurvives => last.result = Return(None)
        /\ last.exc => last.result = Raise("Exception", "raised in the body")
        /\ ActivationPopped

\* C21 witness: a bottom scope was left normally while a tracer made under
\* it was still reachable, the code around it holding nothing, and the exit
\* was flagged.
C21_Witness ==
    /\ last.op = "exit"
    /\ check_leaks
    /\ last.frame.kind = "new_master"
    /\ last.frame.bottom
    /\ ~last.exc
    /\ ~last.held
    /\ \E x \in live_tracers[last.thread] : x.trace.master = last.frame.master
    /\ last.result = Raise("Exception", "Leaked trace")

\* The value can be hashed.
Hashable(v) == v.pytype \in {"int", "Unit"}

\* The two values are one object or equal by the equality of their type.
SameValue(a, b) ==
    \/ a = b
    \/ a.pytype = b.pytype /\ a.pytype \in {"int", "list", "Arr"}
          /\ a.val = b.val

\* C22: two Literals wrapping equal hashable values compare equal, either
\* way round, and have the same hash; two Literals wrapping distinct values
\* that cannot be hashed (different objects that are not equal by value)
\* never compare equal.
C22_LiteralEquality ==
    last.op = "literal" =>
        /\ (Hashable(last.a) /\ Hashable(last.b) /\ SameValue(last.a, last.b)) =>
              /\ last.eq = Return(TRUE)
              /\ last.eq_rev = Return(TRUE)
              /\ last.hash_a.kind = "return"
              /\ last.hash_a = last.hash_b
        /\ (~Hashable(last.a) /\ ~Hashable(last.b)
               /\ ~SameValue(last.a, last.b)) =>
              /\ last.eq # Return(TRUE)
              /\ last.eq_rev # Return(TRUE)

\* C22 witness: two Literals wrapping two objects of a registered type
\* that has neither a hash nor a surrogate were compared and found unequal.
C22_Witness ==
    /\ last.op = "literal"
    /\ last.a.pytype = "Box"
    /\ last.b.pytype = "Box"
    /\ last.a.id # last.b.id
    /\ last.eq = Return(FALSE)
    /\ last.eq_rev = Return(FALSE)

\* C23: for a Literal wrapping a value that is neither hashable nor of a
\* registered literal-able type, hashing succeeds and gives the identity of
\* the wrapped value, and comparing it with another Literal succeeds and
\* tells whether both wrap the same object.
C23_IdentityFallback ==
    (last.op = "literal" /\ ~Hashable(last.a)
        /\ last.a.pytype \notin literalable_types) =>
        /\ last.hash_a = Return(py_id(last.a))
        /\ last.eq = Return(last.a = last.b)

\* C24: constructing a TypedJaxpr succeeds only when the graph has no free
\* variables and there are as many constant values as constant variables,
\* as many input descriptions as input variables and as many output
\* descriptions as output variables.
C24_TypedJaxprChecked ==
    (last.op = "TypedJaxpr" /\ last.result.kind = "return") =>
        /\ last.jaxpr.freevars = <<>>
        /\ Len(last.literals) = Len(last.jaxpr.constvars)
        /\ Len(last.in_avals) = Len(last.jaxpr.invars)
        /\ Len(last.out_avals) = Len(last.jaxpr.outvars)

\* C25: for every value, full_lower of what full_lower returned is what
\* full_lower returned; a value that is no tracer is returned as it is, and
\* a tracer gives what its own full_lower returns.
C25_FullLowerIdempotent ==
    last.op = "full_lower" =>
        /\ last.again = last.result
        /\ ~isTracer(last.args[1]) => last.result = Return(last.args[1])
        /\ isTracer(last.args[1]) =>
              last.result = Return(tracer_full_lower(last.args[1]))

\* C25 witness: a tracer without information wrapped around another one
\* was lowered to the tracer under both, which carries information, and
\* lowering that again changed nothing.
C25_Witness ==
    /\ last.op = "full_lower"
    /\ isTracer(last.args[1])
    /\ "lowered" \in DOMAIN last.args[1]
    /\ "lowered" \in DOMAIN last.args[1].lowered
    /\ last.result = Return(last.args[1].lowered.lowered)
    /\ isTracer(last.result.val)
    /\ last.again = last.result

\* C26: for every abstract value a, bot and abstract_unit among them,
\* lattice_join(bot, a) and lattice_join(a, bot) return a.
C26_BotIsBottom ==
    (last.op = "lattice_join" /\ bot \in Range(last.args)
        /\ None \notin Range(last.args)) =>
        /\ last.args[1] = bot => last.result = Return(last.args[2])
        /\ last.args[2] = bot => last.result = Return(last.args[1])

\* C27: with a tracer among the operands, find_top_trace returns an
\* interpreter built anew: of the class, the master and the level of the
\* interpreter of the first operand among the tracers of the highest level,
\* and at the current sublevel of the caller, whatever the sublevel of that
\* tracer's own interpreter.
C27_TopTraceRebuilt ==
    (last.op = "find_top_trace" /\ \E i \in 1..Len(last.args) : isTracer(last.args[i])) =>
        \E i \in 1..Len(last.args) :
            /\ isTracer(last.args[i])
            /\ \A j \in 1..Len(last.args) : isTracer(last.args[j]) =>
                  /\ last.args[j].trace.level <= last.args[i].trace.level
                  /\ j < i => last.args[j].trace.level < last.args[i].trace.level
            /\ last.result.kind = "return"
            /\ last.result.val.ttype = last.args[i].trace.ttype
            /\ last.result.val.master = last.args[i].trace.master
            /\ last.result.val.level = last.args[i].trace.level
            /\ last.result.val.sublevel = last.sublevel
            /\ last.sublevel = cur_sublevel(last.thread)

\* C27 witness: two tracers of different activations and classes share the
\* highest level, the first of them won, and its own interpreter is of
\* another sublevel than the current one.
C27_Witness ==
    /\ last.op = "find_top_trace"
    /\ Len(last.args) = 3
    /\ ~isTracer(last.args[1])
    /\ isTracer(last.args[2]) /\ isTracer(last.args[3])
    /\ last.args[2].trace.level = last.args[3].trace.level
    /\ last.args[2].trace.master # last.args[3].trace.master
    /\ last.args[2].trace.ttype # last.args[3].trace.ttype
    /\ last.args[2].trace.sublevel # last.sublevel
    /\ last.result.val.master = last.args[2].trace.master
    /\ last.result.val # last.args[2].trace

\* The first operand of the latest operation among its tracers of the
\* highest level.
TopOperand ==
    last.args[CHOOSE i \in 1..Len(last.args) :
        /\ isTracer(last.args[i])
        /\ \A j \in 1..Len(last.args) : isTracer(last.args[j]) =>
              /\ last.args[j].trace.level <= last.args[i].trace.level
              /\ j < i => last.args[j].trace.level < last.args[i].trace.level]

\* The interpreter method that raises operand x to the interpreter of master
\* `master` at sublevel number `sub`: "pure", "lift" or "sublift", "keep"
\* for a tracer that is there already, "fail" when there is no way.
RaisedBy(x, master, sub) ==
    IF ~isTracer(x) THEN "pure"
    ELSE IF x.trace.master = master
    THEN IF x.trace.sublevel.val = sub THEN "keep"
         ELSE IF x.trace.sublevel.val < sub THEN "sublift" ELSE "fail"
    ELSE IF x.trace.level < master.level /\ x.trace.sublevel.val <= sub
    THEN "lift"
    ELSE "fail"

\* C28: when a bind with a tracer among its operands reaches
\* process_primitive, it hands over as many tracers as there were operands,
\* each of the top interpreter's master and of the current sublevel, and in
\* the order of the operands: the i-th is the i-th operand itself when that
\* was such a tracer already, and otherwise what pure, lift or sublift made
\* of the i-th operand.
C28_OperandsRaisedInOrder ==
    (last.op = "bind" /\ CallsTo("process_primitive") # <<>>) =>
        \E c \in {Last(last.calls)} :
            /\ c.fn = "process_primitive"
            /\ Len(CallsTo("process_primitive")) = 1
            /\ c.self.master = TopOperand.trace.master
            /\ Len(c.args) = Len(last.args)
            /\ \A i \in 1..Len(c.args) :
                  /\ isTracer(c.args[i])
                  /\ c.args[i].trace.master = c.self.master
                  /\ c.args[i].trace.sublevel.val = last.sublevel.val
                  /\ \E how \in {RaisedBy(last.args[i], c.self.master,
                                           last.sublevel.val)} :
                        IF how = "keep" THEN c.args[i] = last.args[i]
                        ELSE /\ c.args[i].via = how
                             /\ \E k \in 1..(Len(last.calls) - 1) :
                                   /\ last.calls[k].fn = how
                                   /\ last.calls[k].args = <<last.args[i]>>
            /\ \A k, l \in 1..(Len(last.calls) - 1) : k < l =>
                  \E i, j \in 1..Len(last.args) :
                      /\ i < j
                      /\ last.calls[k].args = <<last.args[i]>>
                      /\ last.calls[l].args = <<last.args[j]>>

\* C28 witness: a tracer of the top interpreter, a value that is no tracer
\* and a tracer of a lower level, in this order, were handed over as the
\* tracer itself, a pure tracer and a lifted tracer.
C28_Witness ==
    /\ last.op = "bind"
    /\ Len(last.args) = 3
    /\ CallsTo("process_primitive") # <<>>
    /\ isTracer(last.args[1]) /\ ~isTracer(last.args[2]) /\ isTracer(last.args[3])
    /\ last.args[3].trace.level < last.args[1].trace.level
    /\ Last(last.calls).args[1] = last.args[1]
    /\ Last(last.calls).args[2].via = "pure"
    /\ Last(last.calls).args[3].via = "lift"

\* C29: when one operand of a bind with a tracer among its operands cannot
\* be raised to the top interpreter (a tracer of the top activation with a
\* newer sublevel than the current one, a tracer of another activation of
\* the top level, a tracer of a lower level with a newer sublevel), bind
\* raises, process_primitive is not called and no value is returned.
C29_NoPartialResult ==
    ( /\ last.op = "bind"
      /\ \E i \in 1..Len(last.args) : isTracer(last.args[i])
      /\ \E i \in 1..Len(last.args) :
            RaisedBy(last.args[i], TopOperand.trace.master,
                     last.sublevel.val) = "fail" )
    => /\ last.result.kind = "raise"
       /\ last.result.exc = "Exception"
       /\ CallsTo("process_primitive") = <<>>
       /\ CallsTo("impl") = <<>>

\* C29 witness: after a value that is no tracer was raised with pure, the
\* tracer of another activation of the top level stopped the bind.
C29_Witness ==
    /\ last.op = "bind"
    /\ Len(last.args) = 3
    /\ ~isTracer(last.args[1]) /\ isTracer(last.args[2]) /\ isTracer(last.args[3])
    /\ last.args[3].trace.level = last.args[2].trace.level
    /\ last.args[3].trace.master # last.args[2].trace.master
    /\ CallsTo("pure") # <<>>
    /\ last.result.kind = "raise"
    /\ last.result.msg = "Different traces at same level"
    /\ CallsTo("process_primitive") = <<>>

\* The latest operation is a call_bind with no tracer among its arguments.
CallWithoutTracer ==
    last.op = "call_bind" /\ \A i \in 1..Len(last.args) : ~isTracer(last.args[i])

\* The latest operation is a call_bind with a tracer among its arguments.
CallWithTracer ==
    last.op = "call_bind" /\ \E i \in 1..Len(last.args) : isTracer(last.args[i])

\* A call with no tracer argument runs impl in a sublevel of its own, one
\* above the caller's and gone after the call however it ended, at the next
\* bottom level of the trace stack, which is below every active activation.
FreshSublevelBottomLevel ==
    CallWithoutTracer =>
        /\ Len(last.during) = Len(last.entry) + 1
        /\ Front(last.during) = last.entry
        /\ Last(last.during).val = Last(last.entry).val + 1
        /\ trace_state[StateOf(last.thread)].substack = last.entry
        /\ last.calls # <<>>
        /\ last.calls[1] = [fn |-> "impl", self |-> call_p, args |-> last.args]
        /\ CallsTo("process_call") = <<>>
        /\ last.level =
              -(Len(trace_state[StateOf(last.thread)].trace_stack.downward) + 1)
        /\ \A m \in ActiveMasters : last.level < m.level
        /\ \A r \in 1..Len(CallsTo("post_process_call")) :
              CallsTo("post_process_call")[r].self.sublevel = Last(last.during)

\* A call with a tracer argument opens no sublevel, takes the level of the
\* top interpreter and, its arguments raised to that interpreter at the
\* current sublevel, hands them to its process_call.
DelegatedToTop ==
    CallWithTracer =>
        /\ last.during = last.entry
        /\ trace_state[StateOf(last.thread)].substack = last.entry
        /\ last.level = TopOperand.trace.level
        /\ CallsTo("impl") = <<>>
        /\ (\A i \in 1..Len(last.args) :
               RaisedBy(last.args[i], TopOperand.trace.master,
                        Last(last.entry).val) # "fail") =>
              /\ Len(CallsTo("process_call")) = 1
              /\ \E c \in {CallsTo("process_call")[1]} :
                    /\ c.self.master = TopOperand.trace.master
                    /\ c.self.ttype = TopOperand.trace.ttype
                    /\ c.self.sublevel = Last(last.entry)
                    /\ Len(c.args) = Len(last.args)
                    /\ \A i \in 1..Len(c.args) :
                          /\ isTracer(c.args[i])
                          /\ c.args[i].trace.master = c.self.master
                          /\ c.args[i].trace.sublevel.val = c.self.sublevel.val

\* Output i of the called function went through a post_process_call: raised
\* to the interpreter of the first one, it was among what that was handed.
Reconciled(i) ==
    /\ CallsTo("post_process_call") # <<>>
    /\ \E c \in {CallsTo("post_process_call")[1]} :
          /\ Len(c.args) = Len(last.body)
          /\ isTracer(c.args[i])
          /\ c.args[i].trace.master = c.self.master
          /\ c.self.level > last.level

\* C30 as stated: a call_bind with no tracer among its arguments runs impl
\* in a fresh sublevel, restored afterwards, at the next bottom level, below
\* every active activation, and every tracer among the outputs of the
\* called function is reconciled through post_process_call; with a tracer
\* among its arguments it delegates to the top interpreter's process_call
\* at that interpreter's level, opening no sublevel.
C30_EveryOutputTracerReconciled ==
    /\ FreshSublevelBottomLevel
    /\ DelegatedToTop
    /\ (CallWithoutTracer /\ last.result.kind = "return") =>
          \A i \in 1..Len(last.body) : isTracer(last.body[i]) => Reconciled(i)

\* C30, amended: as stated, but of the outputs of the called function it is
\* every tracer of a level above the call's that is reconciled through
\* post_process_call, which includes every tracer of an active activation;
\* when no output is such a tracer, no post_process_call is made and the
\* outputs are passed on as they are, a tracer left over from a bottom
\* activation that has ended among them.
C30_OutputTracersAboveLevelReconciled ==
    /\ FreshSublevelBottomLevel
    /\ DelegatedToTop
    /\ (CallWithoutTracer /\ last.result.kind = "return") =>
          /\ \A i \in 1..Len(last.body) :
                (isTracer(last.body[i]) /\ last.body[i].trace.level > last.level)
                    => Reconciled(i)
          /\ \A i \in 1..Len(last.body) :
                (isTracer(last.body[i])
                    /\ last.body[i].trace.master \in ActiveMasters)
                    => Reconciled(i)
          /\ (\A i \in 1..Len(last.body) :
                 ~(isTracer(last.body[i]) /\ last.body[i].trace.level > last.level))
                => /\ CallsTo("post_process_call") = <<>>
                   /\ last.yielded.val[1] = last.body

\* C30 witness: inside a sublevel, a call with no tracer argument returned;
\* of the outputs of the called function one was a tracer of an active
\* activation, reconciled, and one was no tracer.
C30_Witness ==
    /\ CallWithoutTracer
    /\ last.result.kind = "return"
    /\ Len(last.entry) = 2
    /\ Len(last.body) = 2
    /\ isTracer(last.body[1]) /\ ~isTracer(last.body[2])
    /\ last.body[1].trace.master \in ActiveMasters
    /\ Reconciled(1)
    /\ Last(last.during).val = 2

\* The activations on a trace stack.
StackMasters(stack) == Range(stack.upward) \cup Range(stack.downward)

\* C31: in every state reached by nested new_master scopes, in each thread
\* the activation at position i of the upward stack (counted from 0) has
\* level i and the one at position j of the downward stack has level
\* -(j + 1), so the active activations of a thread have pairwise distinct
\* levels; an activation inserted at the top has a level above, and one
\* inserted at the bottom a level below, every activation that was active
\* when it was created; and as long as its scope lasts the stack holds the
\* activation with the level it was created with.
C31_LevelAssignment ==
    \A t \in Threads :
        \E stack \in {trace_state[StateOf(t)].trace_stack} :
            /\ \A i \in 1..Len(stack.upward) : stack.upward[i].level = i - 1
            /\ \A j \in 1..Len(stack.downward) : stack.downward[j].level = -j
            /\ \A m1, m2 \in StackMasters(stack) :
                  m1.level = m2.level => m1 = m2
            /\ Cardinality(StackMasters(stack))
                  = Len(stack.upward) + Len(stack.downward)
            /\ \A i \in 1..Len(scopes[t]) :
                  scopes[t][i].kind = "new_master" =>
                      \E frame \in {scopes[t][i]} :
                          /\ frame.master.level =
                                IF frame.bottom
                                THEN -(Len(frame.entry.trace_stack.downward) + 1)
                                ELSE Len(frame.entry.trace_stack.upward)
                          /\ \A m \in StackMasters(frame.entry.trace_stack) :
                                IF frame.bottom
                                THEN frame.master.level < m.level
                                ELSE frame.master.level > m.level
                          /\ frame.master \in StackMasters(stack)

\* C31 witness: inside the scope of an activation inserted at the top, an
\* activation was inserted at the bottom, while the other thread is inside
\* a scope of its own.
C31_Witness ==
    /\ last.op = "new_master"
    /\ last.thread = "main"
    /\ Len(scopes["main"]) = 2
    /\ scopes["main"][1].kind = "new_master" /\ ~scopes["main"][1].bottom
    /\ scopes["main"][2].kind = "new_master" /\ scopes["main"][2].bottom
    /\ scopes["main"][2].master = last.result.val
    /\ trace_state["worker"].trace_stack.upward # <<>>

\* C32: when full_raise on an interpreter meets a tracer of another
\* activation whose master compares equal to the interpreter's (same level,
\* same class: an activation that was left and one of the same class that
\* took its level), the two masters hash alike, and yet full_raise raises
\* "Different traces at same level": it neither returns the tracer nor
\* calls sublift, lift or pure.
C32_IdentityNotEquality ==
    ( /\ last.op = "full_raise"
      /\ isTracer(last.args[1])
      /\ last.args[1].trace.master # last.self.master
      /\ last.args[1].trace.master.level = last.self.master.level
      /\ last.args[1].trace.master.trace_type = last.self.master.trace_type )
    => /\ MasterTraceEq(last.args[1].trace.master, last.self.master)
       /\ MasterTraceHash(last.args[1].trace.master)
             = MasterTraceHash(last.self.master)
       /\ last.result = Raise("Exception", "Different traces at same level")
       /\ last.calls = <<>>

\* C32 witness: the tracer of an activation that was left was raised to an
\* interpreter of the active activation of the same class that took its
\* level, at the sublevel the tracer was made at, and was refused.
C32_Witness ==
    /\ last.op = "full_raise"
    /\ isTracer(last.args[1])
    /\ last.args[1].trace.master \notin ActiveMasters
    /\ last.self.master \in ActiveMasters
    /\ last.args[1].trace.master # last.self.master
    /\ MasterTraceEq(last.args[1].trace.master, last.self.master)
    /\ last.args[1].trace.sublevel = last.self.sublevel
    /\ last.result = Raise("Exception", "Different traces at same level")

\* With post_process_calls that keep the proviso each turn of the loop is
\* for an interpreter above the call's level and below that of the turn
\* before, so no level has two turns.
OneTurnPerLevel ==
    (last.op = "process_env_traces" /\ last.proviso) =>
        /\ \A r \in 1..Len(last.processed) :
              /\ last.processed[r].level > last.level
              /\ r > 1 => last.processed[r].level < last.processed[r - 1].level
        /\ last.processed # <<>> =>
              \E x \in Range(last.body) :
                  isTracer(x) /\ x.trace.level = last.processed[1].level
        /\ Len(last.todo) = Len(last.processed)
        /\ last.pc = "done" =>
              \A i \in 1..Len(last.outs) :
                  ~(isTracer(last.outs[i]) /\ last.outs[i].trace.level > last.level)

\* With post_process_calls that each hand back a tracer at or above the
\* level of their interpreter the loop, once it has taken a turn, does not
\* reach its yield.
NeverYields ==
    (last.op = "process_env_traces" /\ ~last.proviso /\ last.processed # <<>>)
        => /\ last.pc # "done"
           /\ last.pc = "test" => env_tracers(last.outs, last.level) # <<>>

\* The loop is left without a yield only by the exception full_raise
\* raises for outputs that hold tracers of two activations of the level of
\* the turn: one of them outlived its activation.
LeftOnlyByRaise ==
    (last.op = "process_env_traces" /\ last.pc = "raised") =>
        /\ last.result = Raise("Exception", "Different traces at same level")
        /\ \E x \in Range(last.outs), y \in Range(last.outs) :
              /\ isTracer(x) /\ isTracer(y)
              /\ x.trace.level = y.trace.level
              /\ x.trace.level > last.level
              /\ x.trace.master # y.trace.master

\* With post_process_calls that each hand back a tracer at or above the
\* level of their interpreter the loop, once it has taken a turn, is never
\* left: it stays at a test that finds a tracer above the call's level.
NeverExits ==
    (last.op = "process_env_traces" /\ ~last.proviso /\ last.processed # <<>>)
        => /\ last.pc = "test"
           /\ env_tracers(last.outs, last.level) # <<>>

C34_RandintInRange ==
    last.op = "randint" =>
        /\ last.minval < last.maxval =>
              /\ last.minval <= last.result.val
              /\ last.result.val < last.maxval
        /\ last.minval >= last.maxval => last.result.val = last.minval

\* C35: for every span from 1 to 2**nbits - 1 the multiplier _randint
\* computes is 2**nbits % span.
C35_MultiplierIsPowerModSpan ==
    last.op = "multiplier" => last.result.val = Pow2(last.nbits) % last.span

====
